---- MODULE Spec2Model ----
(***************************************************************************)
(* GreenFiveInnings: the fetch-and-aggregate pipeline.                     *)
(*                                                                         *)
(*   SpecFetch   - app/services/game_service.py: fetch_single_game_details *)
(*                 and fetch_game_details_batch over GAME_CACHE and the    *)
(*                 alru_cache of mlb_stats_client.get_game_data_async.     *)
(*   SpecLastN   - app/services/schedule_service.py:                       *)
(*                 fetch_last_n_completed_game_ids (backward search).      *)
(*   SpecSpan    - app/services/schedule_service.py:                       *)
(*                 fetch_and_cache_game_ids_span (fixed span, chunked).    *)
(*   SpecSummary - app/services/game_service.py: get_team_stats_summary.   *)
(*                                                                         *)
(* Calendar dates are day numbers.  Python's None is NoDoc where a         *)
(* document is expected and NoRuns where a run count is expected.          *)
(***************************************************************************)
EXTENDS Integers, Sequences, FiniteSets, TLC

\* ------------------------------------------------------------------ bounds
NumIds == 2          \* game identifiers known to the remote source: 1..NumIds
NumVersions == 2     \* distinct documents the remote may answer for one id
MaxBatch == 2        \* longest id list handed to fetch_game_details_batch
Today == 17          \* latest day number of "today" (1 January is day 1)
MaxEntries == 2      \* schedule entries the remote holds for the team's season
MaxN == 2            \* largest num_games asked for
MaxNumDays == 11     \* largest num_days asked of the fixed-span resolver
MaxDocs == 2         \* most game ids resolved for one get_team_stats_summary call
MaxDate == 2         \* distinct game dates of the documents summarised
MaxLineup == 2       \* longest batting order of the away team in a boxscore
LastDay == 2         \* calendar dates the schedule routes are served on

\* ------------------------------------------------------- program constants
days_to_check_increment == 15
days_to_search_start == 30
days_to_search_limit == 180

GameIds == 1..NumIds
Versions == 1..NumVersions

\* A game document as the fetcher sees it: which game, and which answer of the
\* remote source it is (the remote's document of a game changes over time).
Doc(id, v) == [pk |-> id, ver |-> v]
Docs == {Doc(id, v) : id \in GameIds, v \in Versions}
NoDoc == [pk |-> 0, ver |-> 0]

\* An entry of the alru_cache: absent, a call in flight, or its result.
AlruNone == [st |-> "none", doc |-> NoDoc]
AlruPending == [st |-> "pending", doc |-> NoDoc]
AlruDone(d) == [st |-> "done", doc |-> d]

RECURSIVE SeqsUpTo(_, _)
SeqsUpTo(S, n) ==
    IF n = 0 THEN {<< >>}
    ELSE LET shorter == SeqsUpTo(S, n - 1)
         IN  shorter \cup {Append(s, x) : s \in {t \in shorter : Len(t) = n - 1}, x \in S}

Range(s) == {s[i] : i \in 1..Len(s)}

VARIABLES
    \* ---- SpecFetch
    GAME_CACHE,     \* game_id -> document, or NoDoc when the key is absent
    alru,           \* alru_cache of get_game_data_async: game_id -> entry
    game_ids,       \* the id list of the current fetch_game_details_batch call
    tasks,          \* one fetch_single_game_details coroutine per list position
    gather,         \* the batch call: "idle" | "running" | "returned" | "raised"
    results,        \* what the batch call returned
    doneOrder,      \* list positions in the order their coroutines finished
    calls,          \* remote get_game_data calls issued on behalf of this batch
    repeat,         \* this batch repeats the id set of the batch that just returned
    prevDoc,        \* game_id -> document that previous batch returned for it
    \* ---- SpecLastN
    season,             \* the schedule entries the remote holds for the team
    today,              \* datetime.date.today()
    team_id,
    num_games,
    completed_games,
    end_date,
    total_days_checked,
    lnPc,               \* "loop" | "await" | "done"
    windows,            \* the << start_date, end_date >> of every schedule request
    lnRaised,           \* a schedule request of this call raised
    lnResult,           \* the returned list of game ids
    \* ---- SpecSpan
    impl,               \* "service": app/services/schedule_service.py, "legacy": cache.py
    num_days,           \* NoDays for None
    base_date,
    SCHEDULE_CACHE,     \* the entry of this call's cache_key: << >> when absent
    dates_to_fetch,     \* the << start_date, end_date >> of every request
    current_date,
    spanPc,             \* "call" | "build" | "gather" | "done" | "raised"
    chunkSt,            \* per request: "pending" | "ok" | "raised"
    spanResult,         \* the returned list of game ids
    \* ---- SpecSummary
    game_details,       \* the documents the remote holds for the resolved game ids
    sumPc,              \* "start" | "loop" | "done"
    todo,               \* valid_game_details not yet visited by the for loop
    game_nrfi_list,
    team_nrfi_list,
    team_runs_f5_list,
    moneyline_results_f5_for_calc,
    detailed_game_results,
    games_processed_count,
    summary,            \* the returned dictionary
    \* ---- the team-stats route (SpecSummary)
    route_pc,           \* "idle" | "call" | "awaiting" | "raised" | "answered"
    stats_http,         \* the HTTP status answered, NoResponse before
    stats_body,         \* what the response carries
    \* ---- SpecComparison
    raw_game_data,      \* the document the remote holds for the target game
    tasks_to_run,       \* the concurrent branches and their results
    away_pitcher_task_index,
    home_pitcher_task_index,
    cmpPc,              \* "call" | "gather" | "returned" | "answered"
    comparison_data,    \* what get_game_comparison returned
    status_code         \* the HTTP status of the comparison route

VARIABLES
    \* ---- SpecSchedule
    clock,              \* the calendar date, datetime.date.today()
    standings_memo,     \* lru_cache of _get_team_records_from_standings
    team_records,       \* what the latest standings lookup returned
    prev_team_records,  \* what the lookup before it returned
    standings_queried,  \* the latest lookup called the remote
    route_cache,        \* lru_cache of the three routes: operation -> entry
    service_cache,      \* lru_cache of the two team operations
    sch_pc,             \* "idle" | "standings" | "current" | "following" | "responded"
    sch_op,             \* "today" | "team" | "next"
    invoked_on,         \* the date the invocation took for today
    queried,            \* the dates this invocation asked the remote for
    todays_games,       \* what the current date's listing yielded
    query_failed,       \* a schedule query of this invocation raised
    sched_response      \* the games answered

schedVars == << clock, standings_memo, team_records, prev_team_records,
                standings_queried, route_cache, service_cache, sch_pc, sch_op,
                invoked_on, queried, todays_games, query_failed, sched_response >>

VARIABLES
    \* ---- SpecH2H
    h2h_memo,           \* lru_cache of get_player_h2h_stats: batter -> entry
    h2h_pc,             \* "idle" | "gathered" | "joined"
    h2h_batter,         \* the lineup player
    h2h_response,       \* how the remote answered the lookup behind the result
    h2h_result,         \* results[task_index]
    h2h_stats           \* the player's h2h_stats entry

h2hVars == << h2h_memo, h2h_pc, h2h_batter, h2h_response, h2h_result, h2h_stats >>

VARIABLES
    \* ---- SpecRecent
    boxscores,          \* the documents held by the alru_cache: game_id -> boxscore
    as_fetched,         \* the same documents as the remote returned them
    rs_pc,              \* "idle" | "lookup" | "loop" | "schedule" | "gather" | "scan" | "returned"
    in_flight,          \* the remote call in flight
    other_task,         \* another task of the event loop: "ready" | "ran"
    rs_num_games,       \* num_games of the request
    days_to_search,
    recent_game_ids,    \* the Final games of the window, newest first
    scan_todo,          \* game_data_list still to scan
    seen_dates,
    player_stats,       \* the game ids of the entries collected
    rs_error            \* the request returned an error dictionary

recentVars == << boxscores, as_fetched, rs_pc, in_flight, other_task, rs_num_games,
                 days_to_search, recent_game_ids, scan_todo, seen_dates,
                 player_stats, rs_error >>

fetchVars == << GAME_CACHE, alru, game_ids, tasks, gather, results, doneOrder,
                calls, repeat, prevDoc >>

lastNVars == << season, today, team_id, num_games, completed_games, end_date,
                total_days_checked, lnPc, windows, lnRaised, lnResult >>

spanVars == << impl, num_days, base_date, SCHEDULE_CACHE, dates_to_fetch,
               current_date, spanPc, chunkSt, spanResult >>

sumVars == << game_details, sumPc, todo, game_nrfi_list, team_nrfi_list,
              team_runs_f5_list, moneyline_results_f5_for_calc,
              detailed_game_results, games_processed_count, summary >>

routeVars == << route_pc, stats_http, stats_body >>

cmpVars == << raw_game_data, tasks_to_run, away_pitcher_task_index,
              home_pitcher_task_index, cmpPc, comparison_data, status_code >>

vars == << fetchVars, lastNVars, spanVars, sumVars, routeVars, cmpVars, schedVars, h2hVars, recentVars >>

\* What the actions of one component leave alone.
notFetch == << lastNVars, spanVars, sumVars, routeVars, cmpVars, schedVars, h2hVars, recentVars >>
notLastN == << fetchVars, spanVars, sumVars, routeVars, cmpVars, schedVars, h2hVars, recentVars >>
notSpan == << fetchVars, lastNVars, sumVars, routeVars, cmpVars, schedVars, h2hVars, recentVars >>
notSummary == << fetchVars, lastNVars, spanVars, routeVars, cmpVars, schedVars, h2hVars, recentVars >>
notRoute == << fetchVars, lastNVars, spanVars, cmpVars, schedVars, h2hVars, recentVars >>
notComparison == << fetchVars, lastNVars, spanVars, sumVars, routeVars, schedVars, h2hVars, recentVars >>
notSchedule == << fetchVars, lastNVars, spanVars, sumVars, routeVars, cmpVars, h2hVars, recentVars >>
notH2H == << fetchVars, lastNVars, spanVars, sumVars, routeVars, cmpVars, schedVars, recentVars >>
notRecent == << fetchVars, lastNVars, spanVars, sumVars, routeVars, cmpVars, schedVars, h2hVars >>

\* ------------------------------------------------------------ SpecFetch

NewTask == [pc |-> "new", res |-> NoDoc]

\* GAME_CACHE[game_id] = game_data
CacheStoreSkipped(cache, id, doc) == cache
CacheReplaced(cache, id, doc) == [k \in GameIds |-> IF k = id THEN doc ELSE NoDoc]
CacheStore(cache, id, doc) == [cache EXCEPT ![id] = doc]

\* game_id in GAME_CACHE
InCache(cache, id) == cache[id] # NoDoc

\* asyncio.gather(*tasks): the results, by position of the awaitable
RECURSIVE InArrivalOrder(_, _)
InArrivalOrder(ts, order) ==
    IF order = << >> THEN << >>
    ELSE << ts[Head(order)].res >> \o InArrivalOrder(ts, Tail(order))
GatherResults(ts, order) == [i \in 1..Len(ts) |-> ts[i].res]

\* [res for res in results if res is not None]
NotNone(rs) == SelectSeq(rs, LAMBDA r : r # NoDoc)

\* GAME_CACHE as the process starts: a memo table with no entry
EmptyCache == [id \in GameIds |-> NoDoc]

FetchIdle ==
    /\ GAME_CACHE = EmptyCache
    /\ alru = [id \in GameIds |-> AlruNone]
    /\ game_ids = << >>
    /\ tasks = << >>
    /\ gather = "idle"
    /\ results = << >>
    /\ doneOrder = << >>
    /\ calls = 0
    /\ repeat = FALSE
    /\ prevDoc = [id \in GameIds |-> NoDoc]

\* A request calls fetch_game_details_batch(ids).  The event loop of the
\* request before it is closed: what it left pending is cancelled.
StartBatch(ids) ==
    /\ gather \in {"idle", "returned", "raised"}
    /\ repeat' = (gather = "returned" /\ ids # << >> /\ Range(ids) = Range(game_ids))
    /\ prevDoc' = [id \in GameIds |->
                     IF repeat' /\ id \in Range(game_ids)
                     THEN tasks[CHOOSE i \in 1..Len(game_ids) : game_ids[i] = id].res
                     ELSE NoDoc]
    /\ game_ids' = ids
    /\ tasks' = [i \in 1..Len(ids) |-> NewTask]
    /\ alru' = [id \in GameIds |-> IF alru[id] = AlruPending THEN AlruNone ELSE alru[id]]
    /\ gather' = "running"
    /\ results' = << >>
    /\ doneOrder' = << >>
    /\ calls' = 0
    /\ UNCHANGED GAME_CACHE
    /\ UNCHANGED notFetch

\* fetch_single_game_details up to its first suspension: the cache lookup and,
\* on a miss, the call of get_game_data_async (a hit of its alru_cache answers
\* at once, a pending entry is awaited, otherwise the remote call is issued).
TaskStart(i) ==
    /\ gather \in {"running", "raised"}
    /\ i \in 1..Len(tasks)
    /\ tasks[i].pc = "new"
    /\ LET id == game_ids[i] IN
       IF InCache(GAME_CACHE, id)
       THEN /\ tasks' = [tasks EXCEPT ![i] = [pc |-> "done", res |-> GAME_CACHE[id]]]
            /\ doneOrder' = Append(doneOrder, i)
            /\ UNCHANGED << GAME_CACHE, alru, calls >>
       ELSE IF alru[id].st = "done"
       THEN /\ GAME_CACHE' = CacheStore(GAME_CACHE, id, alru[id].doc)
            /\ tasks' = [tasks EXCEPT ![i] = [pc |-> "done", res |-> alru[id].doc]]
            /\ doneOrder' = Append(doneOrder, i)
            /\ UNCHANGED << alru, calls >>
       ELSE /\ tasks' = [tasks EXCEPT ![i] = [pc |-> "wait", res |-> NoDoc]]
            /\ alru' = [alru EXCEPT ![id] = AlruPending]
            /\ calls' = IF alru[id] = AlruNone THEN calls + 1 ELSE calls
            /\ UNCHANGED << GAME_CACHE, doneOrder >>
    /\ UNCHANGED << game_ids, gather, results, repeat, prevDoc >>
    /\ UNCHANGED notFetch

\* The worker thread of get_game_data returns the remote's document.
RemoteReturns(id, v) ==
    /\ alru[id] = AlruPending
    /\ alru' = [alru EXCEPT ![id] = AlruDone(Doc(id, v))]
    /\ UNCHANGED << GAME_CACHE, game_ids, tasks, gather, results, doneOrder,
                    calls, repeat, prevDoc >>
    /\ UNCHANGED notFetch

\* alru_cache keeps no entry for a call that raised
FailureCached(entry) == AlruDone(NoDoc)
AfterRaise(entry) == AlruNone

\* get_game_data re-raises the remote's error: the alru entry is dropped and
\* every coroutine awaiting it raises.
RemoteRaises(id) ==
    /\ alru[id] = AlruPending
    /\ alru' = [alru EXCEPT ![id] = AfterRaise(alru[id])]
    /\ tasks' = [i \in 1..Len(tasks) |->
                   IF tasks[i].pc = "wait" /\ game_ids[i] = id
                   THEN [pc |-> "raised", res |-> NoDoc] ELSE tasks[i]]
    /\ UNCHANGED << GAME_CACHE, game_ids, gather, results, doneOrder, calls,
                    repeat, prevDoc >>
    /\ UNCHANGED notFetch

\* fetch_single_game_details resumes with the document: store, then return.
TaskResume(i) ==
    /\ i \in 1..Len(tasks)
    /\ tasks[i].pc = "wait"
    /\ alru[game_ids[i]].st = "done"
    /\ GAME_CACHE' = CacheStore(GAME_CACHE, game_ids[i], alru[game_ids[i]].doc)
    /\ tasks' = [tasks EXCEPT ![i] = [pc |-> "done", res |-> alru[game_ids[i]].doc]]
    /\ doneOrder' = Append(doneOrder, i)
    /\ UNCHANGED << alru, game_ids, gather, results, calls, repeat, prevDoc >>
    /\ UNCHANGED notFetch

\* asyncio.gather: every awaitable has a result.
GatherReturns ==
    /\ gather = "running"
    /\ \A i \in 1..Len(tasks) : tasks[i].pc = "done"
    /\ results' = NotNone(GatherResults(tasks, doneOrder))
    /\ gather' = "returned"
    /\ UNCHANGED << GAME_CACHE, alru, game_ids, tasks, doneOrder, calls, repeat, prevDoc >>
    /\ UNCHANGED notFetch

\* asyncio.gather without return_exceptions: the first exception of an
\* awaitable is raised to the caller; the other awaitables keep running.
GatherRaises ==
    /\ gather = "running"
    /\ \E i \in 1..Len(tasks) : tasks[i].pc = "raised"
    /\ gather' = "raised"
    /\ UNCHANGED << GAME_CACHE, alru, game_ids, tasks, results, doneOrder, calls,
                    repeat, prevDoc >>
    /\ UNCHANGED notFetch

\* Another request reads a document through get_game_data_async directly
\* (get_game_comparison): it fills the alru_cache, not GAME_CACHE.
DirectFetch(id, v) ==
    /\ alru[id] = AlruNone
    /\ alru' = [alru EXCEPT ![id] = AlruDone(Doc(id, v))]
    /\ UNCHANGED << GAME_CACHE, game_ids, tasks, gather, results, doneOrder,
                    calls, repeat, prevDoc >>
    /\ UNCHANGED notFetch

NextFetch ==
    \/ \E ids \in SeqsUpTo(GameIds, MaxBatch) : StartBatch(ids)
    \/ \E i \in 1..MaxBatch : TaskStart(i)
    \/ \E id \in GameIds, v \in Versions : RemoteReturns(id, v)
    \/ \E id \in GameIds : RemoteRaises(id)
    \/ \E i \in 1..MaxBatch : TaskResume(i)
    \/ GatherReturns
    \/ GatherRaises
    \/ \E id \in GameIds, v \in Versions : DirectFetch(id, v)


\* ------------------------------------------------------------ SpecLastN
\* fetch_last_n_completed_game_ids(team_id, num_games).  1 January of the
\* current year is day 1; a schedule entry's game_datetime is the day it is
\* listed under (game datetimes grow with the schedule date).

year_start_date == 1

TerminalStatuses == {"Final", "Game Over", "Completed Early"}
CountedGameTypes == {"R", "S"}

\* status and game_type of the entries the remote may hold
EntryKinds == { << "Final", "R" >>, << "Game Over", "S" >>,
                << "In Progress", "R" >>, << "Final", "E" >> }

Entry(id, day, kind) ==
    [game_id |-> id, game_datetime |-> day, status |-> kind[1], game_type |-> kind[2]]

Min(a, b) == IF a <= b THEN a ELSE b
Max(a, b) == IF a >= b THEN a ELSE b

\* The days the modelled season may list a game on: the first and the last day
\* of every window of the backward search from day t, and the season start.
GameDays(t) ==
    {d \in 1..t : d = year_start_date
                   \/ (t - d) % days_to_check_increment \in {0, days_to_check_increment - 1}}

EntriesOn(t) == {Entry(id, d, k) : id \in GameIds, d \in GameDays(t), k \in EntryKinds}

RECURSIVE SubsetsUpTo(_, _)
SubsetsUpTo(S, n) ==
    IF n = 0 THEN {{}}
    ELSE LET smaller == SubsetsUpTo(S, n - 1)
         IN  smaller \cup {T \cup {x} : T \in smaller, x \in S}

\* every order a set can be listed in
RECURSIVE Listings(_)
Listings(S) ==
    IF S = {} THEN {<< >>}
    ELSE UNION {{<< x >> \o l : l \in Listings(S \ {x})} : x \in S}

\* get_schedule_async(team_id, start_date, end_date): the entries listed on the
\* days of the range
ScheduleChunk(sched, start, end) ==
    {e \in sched : start <= e.game_datetime /\ e.game_datetime <= end}

\* game_status in [...] and game_type in ['R', 'S'] and game.get('game_id')
Qualifies(game) ==
    /\ game.status \in TerminalStatuses
    /\ game.game_type \in CountedGameTypes
    /\ game.game_id # 0

\* the for loop over schedule_chunk
RECURSIVE Accumulate(_, _)
Accumulate(completed, chunk) ==
    IF chunk = << >> THEN completed
    ELSE LET game == Head(chunk)
             next == IF Qualifies(game)
                        /\ game.game_id \notin {completed[i].game_id : i \in 1..Len(completed)}
                     THEN Append(completed, [game_id |-> game.game_id,
                                             game_datetime |-> game.game_datetime])
                     ELSE completed
         IN  Accumulate(next, Tail(chunk))
\* completed_games.sort(key=lambda x: x['game_datetime'], reverse=True): a
\* stable sort, equal keys keep their order
RECURSIVE InsertDesc(_, _)
InsertDesc(sorted, x) ==
    IF sorted = << >> THEN << x >>
    ELSE IF Head(sorted).game_datetime >= x.game_datetime
         THEN << Head(sorted) >> \o InsertDesc(Tail(sorted), x)
         ELSE << x >> \o sorted
RECURSIVE SortAscending(_)
SortAscending(games) ==
    IF games = << >> THEN << >>
    ELSE LET rest == SortAscending(Tail(games))
             x == Head(games)
             before == SelectSeq(rest, LAMBDA g : g.game_datetime < x.game_datetime)
             after == SelectSeq(rest, LAMBDA g : g.game_datetime >= x.game_datetime)
         IN  before \o << x >> \o after
RECURSIVE SortByDatetimeDesc(_)
SortByDatetimeDesc(games) ==
    IF games = << >> THEN << >>
    ELSE InsertDesc(SortByDatetimeDesc(SubSeq(games, 1, Len(games) - 1)),
                    games[Len(games)])

\* [game['game_id'] for game in completed_games[:num_games]]
AllIds(completed, n) == [i \in 1..Len(completed) |-> completed[i].game_id]
FirstIds(completed, n) ==
    [i \in 1..Min(Max(n, 0), Len(completed)) |-> completed[i].game_id]

\* start_date = max(end_date - timedelta(days=days_to_check_increment - 1), year_start_date)
WideWindowStart(end) == Max(end - days_to_check_increment, year_start_date)
WindowStart(end) == Max(end - (days_to_check_increment - 1), year_start_date)

\* end_date = start_date - timedelta(days=1)
SameEndDate(start, end) == end
NextEndDate(start, end) == start - 1

\* while len(completed_games) < num_games and end_date >= year_start_date
LoopContinues == Len(completed_games) < num_games /\ end_date >= year_start_date

\* if start_date == end_date and total_days_checked > 0: break
BoundaryBreak == WindowStart(end_date) = end_date /\ total_days_checked > 0

LastNIdle ==
    /\ season = {}
    /\ today = 1
    /\ team_id = 0
    /\ num_games = 0
    /\ completed_games = << >>
    /\ end_date = 1
    /\ total_days_checked = 0
    /\ lnPc = "done"
    /\ windows = << >>
    /\ lnRaised = FALSE
    /\ lnResult = << >>

\* The loop test passes and the window's schedule request is issued.
LastNRequest ==
    /\ lnPc = "loop"
    /\ team_id # 0
    /\ LoopContinues
    /\ ~BoundaryBreak
    /\ windows' = Append(windows, << WindowStart(end_date), end_date >>)
    /\ lnPc' = "await"
    /\ UNCHANGED << season, today, team_id, num_games, completed_games, end_date,
                    total_days_checked, lnRaised, lnResult >>
    /\ UNCHANGED notLastN

\* The request answers: accumulate, sort, move the window back.
LastNAnswer(chunk) ==
    /\ lnPc = "await"
    /\ completed_games' = SortByDatetimeDesc(Accumulate(completed_games, chunk))
    /\ end_date' = NextEndDate(WindowStart(end_date), end_date)
    /\ total_days_checked' =
          total_days_checked + (end_date' - WindowStart(end_date)) + 1
    /\ lnPc' = "loop"
    /\ UNCHANGED << season, today, team_id, num_games, windows, lnRaised, lnResult >>
    /\ UNCHANGED notLastN

\* The request raises: except ... break, then the return statement.
LastNRaise ==
    /\ lnPc = "await"
    /\ lnRaised' = TRUE
    /\ lnResult' = FirstIds(completed_games, num_games)
    /\ lnPc' = "done"
    /\ UNCHANGED << season, today, team_id, num_games, completed_games, end_date,
                    total_days_checked, windows >>
    /\ UNCHANGED notLastN

\* "if not team_id: return []", the loop test failing, or the boundary break:
\* the return statement.
LastNReturn ==
    /\ lnPc = "loop"
    /\ team_id = 0 \/ ~LoopContinues \/ BoundaryBreak
    /\ lnResult' = (IF team_id = 0 THEN << >> ELSE FirstIds(completed_games, num_games))
    /\ lnPc' = "done"
    /\ UNCHANGED << season, today, team_id, num_games, completed_games, end_date,
                    total_days_checked, windows, lnRaised >>
    /\ UNCHANGED notLastN

NextLastN ==
    \/ LastNRequest
    \/ \E chunk \in Listings(ScheduleChunk(season, WindowStart(end_date), end_date)) :
          LastNAnswer(chunk)
    \/ LastNRaise
    \/ LastNReturn

\* ------------------------------------------------------------- SpecSpan
\* fetch_and_cache_game_ids_span(team_id, num_days), in its two versions.  The
\* remote lists one game on every calendar day; its game_id is the day number.

NoDays == 0 - 1
NoEntry == << 0 >>

\* end_date = min(current_date + timedelta(days=4), base_date)
chunk_span == 4
ChunkEnd(current, base) == Min(current + chunk_span, base)

\* cache.py: range(0, (num_days + 1) // 5), end_date = start_date + timedelta(days=5)
legacy_batch == 5
LegacyDates(start, n) ==
    [i \in 1..((n + 1) \div legacy_batch) |->
        << start + (i - 1) * (legacy_batch + 1),
           start + (i - 1) * (legacy_batch + 1) + legacy_batch >>]

\* fetch_schedule(date_info, team_id): the games listed from start to end
RECURSIVE GamesOfRange(_, _)
GamesOfRange(start, end) ==
    IF start > end THEN << >> ELSE << start >> \o GamesOfRange(start + 1, end)

\* for games_chunk in results: all_games.extend(games_chunk)
RECURSIVE ExtendAll(_, _)
ExtendAll(dates, i) ==
    IF i > Len(dates) THEN << >>
    ELSE GamesOfRange(dates[i][1], dates[i][2]) \o ExtendAll(dates, i + 1)

SpanIdle ==
    /\ impl = "service"
    /\ num_days = NoDays
    /\ base_date = 0
    /\ SCHEDULE_CACHE = NoEntry
    /\ dates_to_fetch = << >>
    /\ current_date = 0
    /\ spanPc = "done"
    /\ chunkSt = << >>
    /\ spanResult = << >>

\* if cache_key in SCHEDULE_CACHE: return the cached ids
SpanCacheHit ==
    /\ spanPc = "call"
    /\ impl = "service"
    /\ SCHEDULE_CACHE # NoEntry
    /\ spanResult' = SCHEDULE_CACHE
    /\ spanPc' = "done"
    /\ UNCHANGED << impl, num_days, base_date, SCHEDULE_CACHE, dates_to_fetch,
                    current_date, chunkSt >>
    /\ UNCHANGED notSpan

\* start_date = base_date - timedelta(days=num_days); current_date = start_date
SpanEnter ==
    /\ spanPc = "call"
    /\ impl = "service"
    /\ SCHEDULE_CACHE = NoEntry
    /\ num_days # NoDays
    /\ current_date' = base_date - num_days
    /\ spanPc' = "build"
    /\ UNCHANGED << impl, num_days, base_date, SCHEDULE_CACHE, dates_to_fetch,
                    chunkSt, spanResult >>
    /\ UNCHANGED notSpan

\* one iteration of "while current_date <= base_date"
SpanBuildChunk ==
    /\ spanPc = "build"
    /\ current_date <= base_date
    /\ dates_to_fetch' =
          Append(dates_to_fetch, << current_date, ChunkEnd(current_date, base_date) >>)
    /\ current_date' = ChunkEnd(current_date, base_date) + 1
    /\ UNCHANGED << impl, num_days, base_date, SCHEDULE_CACHE, spanPc, chunkSt,
                    spanResult >>
    /\ UNCHANGED notSpan

\* the loop is left: one fetch_schedule task per entry of dates_to_fetch
SpanLaunch ==
    /\ spanPc = "build"
    /\ current_date > base_date
    /\ chunkSt' = [i \in 1..Len(dates_to_fetch) |-> "pending"]
    /\ spanPc' = "gather"
    /\ UNCHANGED << impl, num_days, base_date, SCHEDULE_CACHE, dates_to_fetch,
                    current_date, spanResult >>
    /\ UNCHANGED notSpan

\* num_days is None: one request for base_date alone
SpanSingleDay ==
    /\ spanPc = "call"
    /\ impl = "service"
    /\ SCHEDULE_CACHE = NoEntry
    /\ num_days = NoDays
    /\ dates_to_fetch' = << << base_date, base_date >> >>
    /\ chunkSt' = << "pending" >>
    /\ spanPc' = "gather"
    /\ UNCHANGED << impl, num_days, base_date, SCHEDULE_CACHE, current_date, spanResult >>
    /\ UNCHANGED notSpan

\* cache.py: the request ranges are built in one loop, then gathered
SpanLegacyBuild ==
    /\ spanPc = "call"
    /\ impl = "legacy"
    /\ dates_to_fetch' = LegacyDates(base_date - num_days, num_days)
    /\ chunkSt' = [i \in 1..Len(dates_to_fetch') |-> "pending"]
    /\ spanPc' = "gather"
    /\ UNCHANGED << impl, num_days, base_date, SCHEDULE_CACHE, current_date, spanResult >>
    /\ UNCHANGED notSpan

\* the schedule request of one range answers
SpanChunkAnswers(i) ==
    /\ spanPc = "gather"
    /\ i \in 1..Len(chunkSt)
    /\ chunkSt[i] = "pending"
    /\ chunkSt' = [chunkSt EXCEPT ![i] = "ok"]
    /\ UNCHANGED << impl, num_days, base_date, SCHEDULE_CACHE, dates_to_fetch,
                    current_date, spanPc, spanResult >>
    /\ UNCHANGED notSpan

\* the schedule request of one range raises (get_schedule re-raises)
SpanChunkRaises(i) ==
    /\ spanPc = "gather"
    /\ i \in 1..Len(chunkSt)
    /\ chunkSt[i] = "pending"
    /\ chunkSt' = [chunkSt EXCEPT ![i] = "raised"]
    /\ UNCHANGED << impl, num_days, base_date, SCHEDULE_CACHE, dates_to_fetch,
                    current_date, spanPc, spanResult >>
    /\ UNCHANGED notSpan

\* asyncio.gather returns: concatenate in submission order, store, return
SpanGatherReturns ==
    /\ spanPc = "gather"
    /\ \A i \in 1..Len(chunkSt) : chunkSt[i] = "ok"
    /\ spanResult' = ExtendAll(dates_to_fetch, 1)
    /\ SCHEDULE_CACHE' = (IF impl = "service" THEN spanResult' ELSE SCHEDULE_CACHE)
    /\ spanPc' = "done"
    /\ UNCHANGED << impl, num_days, base_date, dates_to_fetch, current_date, chunkSt >>
    /\ UNCHANGED notSpan

\* asyncio.gather without return_exceptions: the call raises
SpanGatherRaises ==
    /\ spanPc = "gather"
    /\ \E i \in 1..Len(chunkSt) : chunkSt[i] = "raised"
    /\ spanPc' = "raised"
    /\ UNCHANGED << impl, num_days, base_date, SCHEDULE_CACHE, dates_to_fetch,
                    current_date, chunkSt, spanResult >>
    /\ UNCHANGED notSpan

MaxChunks == MaxNumDays + 1

NextSpan ==
    \/ SpanCacheHit
    \/ SpanEnter
    \/ SpanBuildChunk
    \/ SpanLaunch
    \/ SpanSingleDay
    \/ SpanLegacyBuild
    \/ \E i \in 1..MaxChunks : SpanChunkAnswers(i)
    \/ \E i \in 1..MaxChunks : SpanChunkRaises(i)
    \/ SpanGatherReturns
    \/ SpanGatherRaises

\* ---------------------------------------------------------- SpecSummary
\* get_team_stats_summary(team_id, num_games) from the point where the game
\* ids are resolved.  Percentages are kept in hundredths of a percent
\* (round(x, 2) of 33.333... is 3333).

team_id_summary == 1     \* the team summarised
opponent_id == 2
f5_innings == 5

NoRuns == 0 - 1          \* a run count that is None or absent
NA == 0 - 2              \* 'N/A'
DivisionError == 0 - 1   \* ZeroDivisionError

Pair(h, a) == [home |-> h, away |-> a]

\* a linescore of n innings: the first inning, then n - 1 innings alike
Line(first, later, n) == [i \in 1..n |-> IF i = 1 THEN first ELSE later]

InningsShapes ==
    { Line(Pair(0, 0), Pair(0, 0), 1),
      Line(Pair(1, 0), Pair(0, 0), 6),
      Line(Pair(0, 0), Pair(1, 0), 6),
      Line(Pair(0, 1), Pair(1, 0), 3),
      Line(Pair(0, NoRuns), Pair(1, NoRuns), 2),
      Line(Pair(NoRuns, NoRuns), Pair(NoRuns, NoRuns), 1) }

GameDocument(pk, home, away, date, innings) ==
    [pk |-> pk, gameData |-> TRUE, liveData |-> TRUE, linescore |-> TRUE,
     innings |-> innings, home_id |-> home, away_id |-> away, originalDate |-> date]

\* documents that pass the validity gate, with the team at home or away
CompleteDocs(pk) ==
    {GameDocument(pk, t[1], t[2], d, inn) :
        t \in {<< team_id_summary, opponent_id >>, << opponent_id, team_id_summary >>},
        d \in 1..MaxDate, inn \in InningsShapes}

\* documents that lack gameData, liveData, the linescore, its innings, or a
\* team id
IncompleteDocs(pk) ==
    LET full == GameDocument(pk, team_id_summary, opponent_id, 1,
                             Line(Pair(0, 0), Pair(0, 0), 1))
    IN  { [full EXCEPT !.gameData = FALSE],
          [full EXCEPT !.liveData = FALSE],
          [full EXCEPT !.linescore = FALSE],
          [full EXCEPT !.innings = << >>],
          [full EXCEPT !.home_id = 0] }

DocsAt(pk) == CompleteDocs(pk) \cup IncompleteDocs(pk)

\* the document lists of up to n games; the i-th game has pk i
RECURSIVE DocLists(_)
DocLists(n) ==
    IF n = 0 THEN {<< >>}
    ELSE LET shorter == DocLists(n - 1)
         IN  shorter \cup {Append(l, d) : l \in {t \in shorter : Len(t) = n - 1},
                                          d \in DocsAt(n)}

\* gd and gd.get("gameData") and gd.get("liveData")
HasData(gd) == gd.gameData /\ gd.liveData

\* not linescore or not linescore.get("innings") or ... len(innings) == 0
MissingInnings(game) == ~game.linescore \/ Len(game.innings) = 0

TeamIdNotChecked(game) == FALSE
\* not away_team_data.get('id') or not home_team_data.get('id')
MissingTeamId(game) == game.away_id = 0 \/ game.home_id = 0

Skipped(game) == MissingInnings(game) \/ MissingTeamId(game)

\* innings[:min(len(innings), 5)]
F5Innings(game) == SubSeq(game.innings, 1, Min(Len(game.innings), f5_innings))

Runs(inning, side) == IF side = "home" THEN inning.home ELSE inning.away

\* the sum of the run counts that are not None, and whether there is one
RECURSIVE TotalRuns(_, _)
TotalRuns(innings, side) ==
    IF innings = << >> THEN 0
    ELSE (IF Runs(Head(innings), side) # NoRuns THEN Runs(Head(innings), side) ELSE 0)
         + TotalRuns(Tail(innings), side)
RunsFound(innings, side) == \E i \in 1..Len(innings) : Runs(innings[i], side) # NoRuns

\* [None] * 5 filled per inning, then r if r is not None else 'N/A'
RunsOrNA(innings, side) ==
    [i \in 1..f5_innings |->
        IF i <= Len(innings) /\ Runs(innings[i], side) # NoRuns
        THEN Runs(innings[i], side) ELSE NA]

\* fi_home_runs is not None and fi_away_runs is not None
AlwaysInSample(first_inning) == TRUE
InNrfiSample(first_inning) == first_inning.home # NoRuns /\ first_inning.away # NoRuns

\* away_runs_found_f5 and home_runs_found_f5
EitherSideFound(f5) == RunsFound(f5, "away") \/ RunsFound(f5, "home")
BothSidesFound(f5) == RunsFound(f5, "away") /\ RunsFound(f5, "home")

TeamSide(game, team) == IF game.home_id = team THEN "home" ELSE "away"

\* linescore.get('teams', {}).get(side, {}).get('runs'): the remote's total,
\* None when it reports no run count for the side
FullGameRuns(game, side) ==
    IF RunsFound(game.innings, side) THEN TotalRuns(game.innings, side) ELSE NoRuns

DetailOf(game) ==
    [game_date |-> game.originalDate,
     game_pk |-> game.pk,
     away_team |-> [id |-> game.away_id,
                    runs |-> RunsOrNA(F5Innings(game), "away"),
                    total_runs |-> TotalRuns(F5Innings(game), "away"),
                    full_game_runs |-> FullGameRuns(game, "away")],
     home_team |-> [id |-> game.home_id,
                    runs |-> RunsOrNA(F5Innings(game), "home"),
                    total_runs |-> TotalRuns(F5Innings(game), "home"),
                    full_game_runs |-> FullGameRuns(game, "home")]]

MoneylineOf(game) ==
    [away_team |-> [id |-> game.away_id, total_runs |-> TotalRuns(F5Innings(game), "away")],
     home_team |-> [id |-> game.home_id, total_runs |-> TotalRuns(F5Innings(game), "home")]]

\* round(count / sample * 100, 2), in hundredths of a percent
Percentage(count, sample) ==
    IF sample = 0 THEN DivisionError
    ELSE (2 * 10000 * count + sample) \div (2 * sample)

\* sum(1 for did_happen in list if did_happen)
CountHappened(list) == Len(SelectSeq(list, LAMBDA did_happen : did_happen))

\* sum(1 for runs in list if runs >= 1.5), the threshold given in halves
CountOver(list, halves) == Len(SelectSeq(list, LAMBDA runs : 2 * runs >= halves))

\* sum(...) / len(list) * 100 if list else 0.0
Unguarded(count, sample) == Percentage(count, sample)
PercentageOrZero(count, sample) ==
    IF sample = 0 THEN 0 ELSE Percentage(count, sample)

\* calculate_win_percentage(results, team_id)
Tied(game) == game.home_team.total_runs = game.away_team.total_runs
Won(game, team) ==
    \/ game.home_team.id = team /\ game.home_team.total_runs > game.away_team.total_runs
    \/ game.home_team.id # team /\ game.away_team.id = team
          /\ game.away_team.total_runs > game.home_team.total_runs
TiesLeftOut(res, team) ==
    LET decided == SelectSeq(res, LAMBDA g : ~Tied(g))
        wins == Len(SelectSeq(res, LAMBDA g : Won(g, team)))
    IN  IF Len(decided) > 0 THEN Percentage(wins, Len(decided)) ELSE 0
calculate_win_percentage(res, team) ==
    IF res = << >> THEN 0
    ELSE LET valid_games == Len(res)
             wins == Len(SelectSeq(res, LAMBDA g : Won(g, team)))
         IN  IF valid_games > 0 THEN Percentage(wins, valid_games) ELSE 0

\* detailed_game_results.sort(key=game_date, reverse=True): stable
RECURSIVE InsertByDateDesc(_, _)
InsertByDateDesc(sorted, x) ==
    IF sorted = << >> THEN << x >>
    ELSE IF Head(sorted).game_date >= x.game_date
         THEN << Head(sorted) >> \o InsertByDateDesc(Tail(sorted), x)
         ELSE << x >> \o sorted
Unsorted(list) == list
OneResultLost(list) == IF list = << >> THEN << >> ELSE Tail(list)
RECURSIVE SortByDateDesc(_)
SortByDateDesc(list) ==
    IF list = << >> THEN << >>
    ELSE InsertByDateDesc(SortByDateDesc(SubSeq(list, 1, Len(list) - 1)), list[Len(list)])

\* the dictionary returned when nothing is summarised
EmptySummary ==
    [games_analyzed |-> 0, nrfi |-> 0, game_nrfi_percentage |-> 0,
     win_percentage_f5 |-> 0, over1_5F5 |-> 0, over2_5F5 |-> 0,
     results |-> << >>, error |-> ""]

\* the dictionary of the except branch, for the exception e
ErrorSummary(e) == [EmptySummary EXCEPT !.error = e]

SummaryIdle ==
    /\ game_details = << >>
    /\ sumPc = "done"
    /\ todo = << >>
    /\ game_nrfi_list = << >>
    /\ team_nrfi_list = << >>
    /\ team_runs_f5_list = << >>
    /\ moneyline_results_f5_for_calc = << >>
    /\ detailed_game_results = << >>
    /\ games_processed_count = 0
    /\ summary = EmptySummary

\* if not game_ids: return the defaults
SumNoGames ==
    /\ sumPc = "start"
    /\ game_details = << >>
    /\ summary' = EmptySummary
    /\ sumPc' = "done"
    /\ UNCHANGED << game_details, todo, game_nrfi_list, team_nrfi_list,
                    team_runs_f5_list, moneyline_results_f5_for_calc,
                    detailed_game_results, games_processed_count >>
    /\ UNCHANGED notSummary

\* fetch_game_details_batch raises (a fetch failed): the except branch
SumFetchRaises ==
    /\ sumPc = "start"
    /\ game_details # << >>
    /\ summary' = ErrorSummary("fetch failed")
    /\ sumPc' = "done"
    /\ UNCHANGED << game_details, todo, game_nrfi_list, team_nrfi_list,
                    team_runs_f5_list, moneyline_results_f5_for_calc,
                    detailed_game_results, games_processed_count >>
    /\ UNCHANGED notSummary

\* fetch_game_details_batch returns: valid_game_details, and the defaults when
\* it is empty
SumFetched ==
    /\ sumPc = "start"
    /\ game_details # << >>
    /\ LET valid_game_details == SelectSeq(game_details, HasData) IN
       IF valid_game_details = << >>
       THEN /\ summary' = EmptySummary
            /\ sumPc' = "done"
            /\ UNCHANGED todo
       ELSE /\ todo' = valid_game_details
            /\ sumPc' = "loop"
            /\ UNCHANGED summary
    /\ UNCHANGED << game_details, game_nrfi_list, team_nrfi_list,
                    team_runs_f5_list, moneyline_results_f5_for_calc,
                    detailed_game_results, games_processed_count >>
    /\ UNCHANGED notSummary

\* one iteration of "for game in valid_game_details"
SumGame ==
    /\ sumPc = "loop"
    /\ todo # << >>
    /\ todo' = Tail(todo)
    /\ LET game == Head(todo)
           side == TeamSide(game, team_id_summary)
           first_inning == game.innings[1]
           f5 == F5Innings(game)
       IN  IF Skipped(game)
           THEN UNCHANGED << game_nrfi_list, team_nrfi_list, team_runs_f5_list,
                             moneyline_results_f5_for_calc, detailed_game_results,
                             games_processed_count >>
           ELSE /\ games_processed_count' = games_processed_count + 1
                /\ IF InNrfiSample(first_inning)
                   THEN /\ game_nrfi_list' =
                              Append(game_nrfi_list,
                                     first_inning.home = 0 /\ first_inning.away = 0)
                        /\ team_nrfi_list' =
                              Append(team_nrfi_list, Runs(first_inning, side) = 0)
                   ELSE UNCHANGED << game_nrfi_list, team_nrfi_list >>
                /\ team_runs_f5_list' =
                      (IF RunsFound(f5, side)
                       THEN Append(team_runs_f5_list, TotalRuns(f5, side))
                       ELSE team_runs_f5_list)
                /\ moneyline_results_f5_for_calc' =
                      (IF BothSidesFound(f5)
                       THEN Append(moneyline_results_f5_for_calc, MoneylineOf(game))
                       ELSE moneyline_results_f5_for_calc)
                /\ detailed_game_results' = Append(detailed_game_results, DetailOf(game))
    /\ UNCHANGED << game_details, sumPc, summary >>
    /\ UNCHANGED notSummary

\* after the loop: the percentages, the sort, the returned dictionary; a
\* ZeroDivisionError is caught by the except branch
SumFinish ==
    /\ sumPc = "loop"
    /\ todo = << >>
    /\ LET game_nrfi == PercentageOrZero(CountHappened(game_nrfi_list),
                                         Len(game_nrfi_list))
           team_nrfi == PercentageOrZero(CountHappened(team_nrfi_list),
                                         Len(team_nrfi_list))
           over_1_5 == PercentageOrZero(CountOver(team_runs_f5_list, 3),
                                        Len(team_runs_f5_list))
           over_2_5 == PercentageOrZero(CountOver(team_runs_f5_list, 5),
                                        Len(team_runs_f5_list))
           win_f5 == calculate_win_percentage(moneyline_results_f5_for_calc,
                                              team_id_summary)
       IN  summary' =
             IF DivisionError \in {game_nrfi, team_nrfi, over_1_5, over_2_5, win_f5}
             THEN ErrorSummary("division by zero")
             ELSE [games_analyzed |-> games_processed_count,
                   nrfi |-> team_nrfi,
                   game_nrfi_percentage |-> game_nrfi,
                   win_percentage_f5 |-> win_f5,
                   over1_5F5 |-> over_1_5,
                   over2_5F5 |-> over_2_5,
                   results |-> SortByDateDesc(detailed_game_results),
                   error |-> ""]
    /\ sumPc' = "done"
    /\ UNCHANGED << game_details, todo, game_nrfi_list, team_nrfi_list,
                    team_runs_f5_list, moneyline_results_f5_for_calc,
                    detailed_game_results, games_processed_count >>
    /\ UNCHANGED notSummary


\* ------------------------------------------- the team-stats route
\* get_stats_batch_route(team_id, num_games) of api/schedule.py

NoResponse == 0
\* async def get_team_stats_summary(team_id: int, num_games: int)
summary_parameters == {"team_id", "num_games"}
\* get_team_stats_summary(team_id, num_games, include_details=True)
route_arguments == {"team_id", "num_games", "include_details"}

\* a call binds when every argument names a parameter; else TypeError
Binds(arguments, parameters) == arguments \subseteq parameters

\* stats_summary.get("error")
CarriesError(s) == s.error # ""

RouteIdle ==
    /\ route_pc = "idle"
    /\ stats_http = NoResponse
    /\ stats_body = "none"

\* the route calls the aggregator
StatsRouteCalls ==
    /\ route_pc = "call"
    /\ IF Binds(route_arguments, summary_parameters)
       THEN /\ route_pc' = "awaiting"
            /\ sumPc' = "start"
       ELSE /\ route_pc' = "raised"
            /\ UNCHANGED sumPc
    /\ UNCHANGED << game_details, todo, game_nrfi_list, team_nrfi_list,
                    team_runs_f5_list, moneyline_results_f5_for_calc,
                    detailed_game_results, games_processed_count, summary >>
    /\ UNCHANGED << stats_http, stats_body >>
    /\ UNCHANGED notRoute

\* the response: the unhandled exception is answered by the framework with
\* 500; a summary is answered with 500 when it carries an error
StatsRouteResponds ==
    /\ \/ route_pc = "raised"
       \/ route_pc = "awaiting" /\ sumPc = "done"
    /\ IF route_pc = "raised"
       THEN /\ stats_http' = 500
            /\ stats_body' = "Internal Server Error"
       ELSE /\ stats_http' = (IF CarriesError(summary) THEN 500 ELSE 200)
            /\ stats_body' = "summary"
    /\ route_pc' = "answered"
    /\ UNCHANGED sumVars
    /\ UNCHANGED notRoute

NextSummary ==
    \/ SumNoGames
    \/ SumFetchRaises
    \/ SumFetched
    \/ SumGame
    \/ SumFinish
    \/ StatsRouteCalls
    \/ StatsRouteResponds

\* ------------------------------------------------------- SpecComparison
\* get_game_comparison(game_id, lookback_games) of comparison_service.py and
\* get_game_comparison_route of api/comparison.py.  Positions in tasks_to_run
\* count from 1.

TBD == 0 - 1             \* the pitcher id "TBD"
NoIndex == 0 - 1         \* away_pitcher_task_index = -1
away_id == 1
home_id == 2
away_pitcher == 11
home_pitcher == 12
first_away_batter == 21
home_batter == 31

BoxPlayer(id, position) == [id |-> id, position |-> position]

\* the away battingOrder: the first n away batters, all with a position, or
\* one batter without a position
AwayBoxes ==
    {[i \in 1..n |-> BoxPlayer(first_away_batter + i - 1, TRUE)] : n \in 0..MaxLineup}
        \cup {<< BoxPlayer(first_away_batter, FALSE) >>}
HomeBoxes == {<< >>, << BoxPlayer(home_batter, TRUE) >>}

TargetGames ==
    [away_team_id : {0, away_id},
     home_team_id : {home_id},
     away_pitcher_id : {TBD, away_pitcher},
     home_pitcher_id : {TBD, 0, home_pitcher},
     away_box : AwayBoxes,
     home_box : HomeBoxes]

\* _extract_lineup: None without batting order or without a player that has
\* a position
NoLineup == [posted |-> FALSE, players |-> << >>]
RECURSIVE IdsOf(_)
IdsOf(box) == IF box = << >> THEN << >> ELSE << Head(box).id >> \o IdsOf(Tail(box))
_extract_lineup(box) ==
    LET lineup == IdsOf(SelectSeq(box, LAMBDA pl : pl.position))
    IN  IF box = << >> \/ lineup = << >> THEN NoLineup
        ELSE [posted |-> TRUE, players |-> lineup]

\* pitcher_id and pitcher_id != "TBD"
AnyPitcher(pitcher_id) == TRUE
Known(pitcher_id) == pitcher_id # 0 /\ pitcher_id # TBD

Branch(kind, who, against) ==
    [kind |-> kind, who |-> who, against |-> against, st |-> "pending"]

\* asyncio.to_thread(get_player_stats, ...) or asyncio.sleep(0, result=...)
PitcherBranch(pitcher_id) ==
    IF Known(pitcher_id) THEN Branch("pitcher", pitcher_id, 0)
    ELSE Branch("sleep", pitcher_id, 0)

\* for player in enumerate(lineup): to_thread(get_player_h2h_stats, id, pitcher)
H2HBranches(lineup, pitcher_id) ==
    IF Known(pitcher_id)
    THEN LET batters == SelectSeq(lineup.players, LAMBDA id : id # 0)
         IN  [i \in 1..Len(batters) |-> Branch("h2h", batters[i], pitcher_id)]
    ELSE << >>

\* iterating a lineup that is None raises TypeError
IteratesNone(lineup, pitcher_id) == Known(pitcher_id) /\ ~lineup.posted

\* how a branch can end: its value, the value None, or an exception
Outcomes(kind) ==
    CASE kind = "summary" -> {"ok", "error"}     \* the aggregator returns its error summary
      [] kind = "pitcher" -> {"ok", "raised"}
      [] kind = "sleep" -> {"ok"}
      [] kind = "h2h" -> {"ok", "none", "raised"}

\* asyncio.gather(*tasks_to_run, return_exceptions=True) never raises
RaisesFirstException(ts) == \E i \in 1..Len(ts) : ts[i].st = "raised"
GatherRaisesOn(ts) == FALSE

\* results[0] if not isinstance(results[0], Exception) else {"error": ...}
SummaryOf(ts, i) ==
    [team |-> ts[i].who, error |-> ts[i].st \in {"error", "raised"}]

\* results[index] if index != -1 and not an Exception else {"error": ...}
PitcherData(ts, index) ==
    IF index # NoIndex /\ ts[index].st # "raised" THEN "stats" ELSE "error"

\* get_era_from_data
get_era_from_data(p_data) == IF p_data = "error" THEN "N/A" ELSE "era"

\* h2h_task_indices.get(player_id): 0 when the player has no branch
H2HIndex(ts, player_id) ==
    LET found == {i \in 1..Len(ts) : ts[i].kind = "h2h" /\ ts[i].who = player_id}
    IN  IF found = {} THEN 0 ELSE CHOOSE i \in found : \A j \in found : j <= i

H2HStats(ts, player_id) ==
    LET task_index == H2HIndex(ts, player_id) IN
    IF task_index = 0 THEN [kind |-> "PA N/A", batter |-> 0, pitcher |-> 0]
    ELSE IF ts[task_index].st = "raised"
         THEN [kind |-> "exception", batter |-> 0, pitcher |-> 0]
    ELSE IF ts[task_index].st = "none"
         THEN [kind |-> "Fetch/Parse Failed", batter |-> 0, pitcher |-> 0]
    ELSE [kind |-> "stats", batter |-> ts[task_index].who,
          pitcher |-> ts[task_index].against]

LineupWithH2H(ts, lineup) ==
    [i \in 1..Len(lineup.players) |->
        [id |-> lineup.players[i], h2h_stats |-> H2HStats(ts, lineup.players[i])]]

NoComparison ==
    [keys |-> {}, error |-> << >>, raised |-> FALSE,
     away_team |-> [id |-> 0, lineup |-> << >>],
     home_team |-> [id |-> 0, lineup |-> << >>],
     away_pitcher |-> [id |-> 0, season_era |-> ""],
     home_pitcher |-> [id |-> 0, season_era |-> ""],
     away |-> [team |-> 0, error |-> FALSE],
     home |-> [team |-> 0, error |-> FALSE]]

\* except Exception as e: return {"error": f"Failed to generate comparison ...: {e}"}
Propagates(e) == [NoComparison EXCEPT !.raised = TRUE]
OnException(e) ==
    [NoComparison EXCEPT !.keys = {"error"},
                         !.error = << "Failed to generate comparison for game", e >>]

ComparisonData(game, ts, away_index, home_index) ==
    [keys |-> {"game_info", "team_comparison"}, error |-> << >>, raised |-> FALSE,
     away_team |-> [id |-> game.away_team_id,
                    lineup |-> LineupWithH2H(ts, _extract_lineup(game.away_box))],
     home_team |-> [id |-> game.home_team_id,
                    lineup |-> LineupWithH2H(ts, _extract_lineup(game.home_box))],
     away_pitcher |-> [id |-> game.away_pitcher_id,
                       season_era |-> get_era_from_data(PitcherData(ts, away_index))],
     home_pitcher |-> [id |-> game.home_pitcher_id,
                       season_era |-> get_era_from_data(PitcherData(ts, home_index))],
     away |-> SummaryOf(ts, 1),
     home |-> SummaryOf(ts, 2)]

ComparisonIdle ==
    /\ raw_game_data = [away_team_id |-> 0, home_team_id |-> 0,
                        away_pitcher_id |-> TBD, home_pitcher_id |-> TBD,
                        away_box |-> << >>, home_box |-> << >>]
    /\ tasks_to_run = << >>
    /\ away_pitcher_task_index = NoIndex
    /\ home_pitcher_task_index = NoIndex
    /\ cmpPc = "answered"
    /\ comparison_data = NoComparison
    /\ status_code = NoResponse

\* get_game_data_async raises: the except branch
CmpFetchRaises ==
    /\ cmpPc = "call"
    /\ comparison_data' = OnException("fetch failed")
    /\ cmpPc' = "returned"
    /\ UNCHANGED << raw_game_data, tasks_to_run, away_pitcher_task_index,
                    home_pitcher_task_index, status_code >>
    /\ UNCHANGED notComparison

\* the document is fetched: lineups, pitcher ids, tasks_to_run; the gather is
\* awaited, or a TypeError of the H2H loops is caught
CmpBuildTasks ==
    /\ cmpPc = "call"
    /\ LET away_lineup == _extract_lineup(raw_game_data.away_box)
           home_lineup == _extract_lineup(raw_game_data.home_box)
           away_pitcher_id == raw_game_data.away_pitcher_id
           home_pitcher_id == raw_game_data.home_pitcher_id
       IN  IF \/ IteratesNone(away_lineup, home_pitcher_id)
              \/ IteratesNone(home_lineup, away_pitcher_id)
           THEN /\ comparison_data' = OnException("'NoneType' object is not iterable")
                /\ cmpPc' = "returned"
                /\ UNCHANGED << tasks_to_run, away_pitcher_task_index,
                                home_pitcher_task_index >>
           ELSE /\ tasks_to_run' =
                      << Branch("summary", raw_game_data.away_team_id, 0),
                         Branch("summary", raw_game_data.home_team_id, 0),
                         PitcherBranch(away_pitcher_id),
                         PitcherBranch(home_pitcher_id) >>
                      \o H2HBranches(away_lineup, home_pitcher_id)
                      \o H2HBranches(home_lineup, away_pitcher_id)
                /\ away_pitcher_task_index' = (IF Known(away_pitcher_id) THEN 3 ELSE NoIndex)
                /\ home_pitcher_task_index' = (IF Known(home_pitcher_id) THEN 4 ELSE NoIndex)
                /\ cmpPc' = "gather"
                /\ UNCHANGED comparison_data
    /\ UNCHANGED << raw_game_data, status_code >>
    /\ UNCHANGED notComparison

\* one branch ends
BranchEnds(i, outcome) ==
    /\ cmpPc = "gather"
    /\ i \in 1..Len(tasks_to_run)
    /\ tasks_to_run[i].st = "pending"
    /\ outcome \in Outcomes(tasks_to_run[i].kind)
    /\ tasks_to_run' = [tasks_to_run EXCEPT ![i].st = outcome]
    /\ UNCHANGED << raw_game_data, away_pitcher_task_index, home_pitcher_task_index,
                    cmpPc, comparison_data, status_code >>
    /\ UNCHANGED notComparison

\* every branch has ended: the gather returns, the lineups are filled and the
\* comparison is returned; iterating a lineup that is None is caught
CmpJoin ==
    /\ cmpPc = "gather"
    /\ \A i \in 1..Len(tasks_to_run) : tasks_to_run[i].st # "pending"
    /\ comparison_data' =
          IF GatherRaisesOn(tasks_to_run) THEN OnException("branch failed")
          ELSE IF \/ ~_extract_lineup(raw_game_data.away_box).posted
                  \/ ~_extract_lineup(raw_game_data.home_box).posted
               THEN OnException("'NoneType' object is not iterable")
          ELSE ComparisonData(raw_game_data, tasks_to_run,
                              away_pitcher_task_index, home_pitcher_task_index)
    /\ cmpPc' = "returned"
    /\ UNCHANGED << raw_game_data, tasks_to_run, away_pitcher_task_index,
                    home_pitcher_task_index, status_code >>
    /\ UNCHANGED notComparison

\* "Could not fetch" in error or "Missing team ID" in error
NotFoundMarkers == {"Could not fetch", "Missing team ID"}
Mentions(error, markers) == \E i \in 1..Len(error) : error[i] \in markers

\* get_game_comparison_route
StatusCode(data) ==
    IF "error" \in data.keys
    THEN (IF Mentions(data.error, NotFoundMarkers) THEN 404 ELSE 500)
    ELSE 200

get_game_comparison_route ==
    /\ cmpPc = "returned"
    /\ status_code' = StatusCode(comparison_data)
    /\ cmpPc' = "answered"
    /\ UNCHANGED << raw_game_data, tasks_to_run, away_pitcher_task_index,
                    home_pitcher_task_index, comparison_data >>
    /\ UNCHANGED notComparison

MaxBranches == 4 + MaxLineup + 1

NextComparison ==
    \/ CmpFetchRaises
    \/ CmpBuildTasks
    \/ \E i \in 1..MaxBranches, outcome \in {"ok", "error", "none", "raised"} :
          BranchEnds(i, outcome)
    \/ CmpJoin
    \/ get_game_comparison_route

\* --------------------------------------------------------- SpecSchedule
\* The three schedule routes and the operations behind them, for one team id.
\* Pitcher information and the team records put into each game are left out:
\* fetch_and_cache_pitcher_info answers "TBD" on any failure and never raises.

ScheduleOps == {"today", "team", "next"}

\* one entry of the remote's listing for date d
ListedGame(d, n, status, missing, local) ==
    [game_id |-> IF missing = "game_id" THEN 0 ELSE 10 * d + n,
     home_id |-> IF missing = "home_id" THEN 0 ELSE 1,
     away_id |-> IF missing = "away_id" THEN 0 ELSE 2,
     status |-> status,
     date |-> d,
     local_day |-> local]

UpcomingGame(d) == ListedGame(d, 1, "Scheduled", "", TRUE)
FinishedGame(d, status) == ListedGame(d, 2, status, "", TRUE)
\* a game whose start, in New York time, falls on another date
OtherDayGame(d) == ListedGame(d, 3, "Scheduled", "", FALSE)
IncompleteGame(d, missing) == ListedGame(d, 4, "Scheduled", missing, TRUE)

\* what statsapi.schedule may answer for date d
DayListings(d) ==
    {<< >>, << UpcomingGame(d) >>, << OtherDayGame(d) >>,
     << FinishedGame(d, "Final"), UpcomingGame(d) >>}
    \cup {<< FinishedGame(d, s) >> : s \in TerminalStatuses}
    \cup {<< IncompleteGame(d, k) >> : k \in {"game_id", "home_id", "away_id"}}

\* if not game_id or not home_id or not away_id: continue
IdsPresent(game) == game.game_id # 0 /\ game.home_id # 0 /\ game.away_id # 0

\* ... and: if game_status in ["Final", "Game Over", "Completed Early"]: continue
StatusIgnored(game) == game.game_id # 0 /\ game.home_id # 0 /\ game.away_id # 0
Upcoming(game) == IdsPresent(game) /\ game.status \notin TerminalStatuses

\* get_today_schedule also drops a game whose local date is not today
TodayKeeps(game) == Upcoming(game) /\ game.local_day

\* an lru_cache entry
NoEntryYet == [hit |-> FALSE, games |-> << >>]
Memoized(games) == [hit |-> TRUE, games |-> games]

\* functools.lru_cache stores the value the call returned, after the call: the
\* cache_clear() made inside the call finds nothing to clear, and the empty
\* mapping returned is stored like any other value.
StoredAfterReturn(records) == records

ScheduleIdle ==
    /\ clock = 1
    /\ standings_memo = "none"
    /\ team_records = "none"
    /\ prev_team_records = "none"
    /\ standings_queried = FALSE
    /\ route_cache = [op \in ScheduleOps |-> NoEntryYet]
    /\ service_cache = [op \in ScheduleOps |-> NoEntryYet]
    /\ sch_pc = "idle"
    /\ sch_op = "today"
    /\ invoked_on = 1
    /\ queried = << >>
    /\ todays_games = << >>
    /\ query_failed = FALSE
    /\ sched_response = << >>

\* midnight
DateAdvances ==
    /\ clock < LastDay
    /\ clock' = clock + 1
    /\ UNCHANGED << standings_memo, team_records, prev_team_records,
                    standings_queried, route_cache, service_cache, sch_pc, sch_op,
                    invoked_on, queried, todays_games, query_failed, sched_response >>
    /\ UNCHANGED notSchedule

\* the operation returns games: lru_cache stores them for the service
\* function (the two team operations) and for the route
Answer(op, games) ==
    /\ sched_response' = games
    /\ route_cache' = [route_cache EXCEPT ![op] = Memoized(games)]
    /\ service_cache' = (IF op = "today" THEN service_cache
                         ELSE [service_cache EXCEPT ![op] = Memoized(games)])
    /\ sch_pc' = "responded"

\* A request reaches one of the three routes.  The route's lru_cache answers
\* when it holds an entry; else the operation's lru_cache; else the operation
\* runs and reads the date.
ScheduleRoute(op) ==
    /\ sch_pc \in {"idle", "responded"}
    /\ sch_op' = op
    /\ invoked_on' = clock
    /\ queried' = << >>
    /\ todays_games' = << >>
    /\ query_failed' = FALSE
    /\ IF route_cache[op].hit
       THEN /\ sched_response' = route_cache[op].games
            /\ sch_pc' = "responded"
            /\ UNCHANGED << route_cache, service_cache >>
       ELSE IF op # "today" /\ service_cache[op].hit
       THEN /\ sched_response' = service_cache[op].games
            /\ route_cache' = [route_cache EXCEPT ![op] = service_cache[op]]
            /\ sch_pc' = "responded"
            /\ UNCHANGED service_cache
       ELSE /\ sch_pc' = "standings"
            /\ UNCHANGED << route_cache, service_cache, sched_response >>
    /\ UNCHANGED << clock, standings_memo, team_records, prev_team_records,
                    standings_queried >>
    /\ UNCHANGED notSchedule

\* _get_team_records_from_standings() answered from its lru_cache.
\* get_today_schedule reads the date after the lookup.
StandingsFromMemo ==
    /\ sch_pc = "standings"
    /\ standings_memo # "none"
    /\ prev_team_records' = team_records
    /\ team_records' = standings_memo
    /\ standings_queried' = FALSE
    /\ invoked_on' = (IF sch_op = "today" THEN clock ELSE invoked_on)
    /\ sch_pc' = "current"
    /\ UNCHANGED << clock, standings_memo, route_cache, service_cache, sch_op,
                    queried, todays_games, query_failed, sched_response >>
    /\ UNCHANGED notSchedule

\* _get_team_records_from_standings() runs: get_standings raises, or yields
\* no usable record, or yields records.
StandingsFromRemote(outcome) ==
    /\ sch_pc = "standings"
    /\ standings_memo = "none"
    /\ LET records == IF outcome = "records" THEN "records" ELSE "empty"
       IN  /\ team_records' = records
           /\ standings_memo' = StoredAfterReturn(records)
    /\ prev_team_records' = team_records
    /\ standings_queried' = TRUE
    /\ invoked_on' = (IF sch_op = "today" THEN clock ELSE invoked_on)
    /\ sch_pc' = "current"
    /\ UNCHANGED << clock, route_cache, service_cache, sch_op, queried,
                    todays_games, query_failed, sched_response >>
    /\ UNCHANGED notSchedule

\* get_schedule for the date the invocation read
QueryCurrent(listing) ==
    /\ sch_pc = "current"
    /\ queried' = << invoked_on >>
    /\ todays_games' = listing
    /\ CASE sch_op = "today" -> Answer(sch_op, SelectSeq(listing, TodayKeeps))
         [] sch_op = "team" ->
               IF listing = << >>
               THEN /\ sch_pc' = "following"
                    /\ UNCHANGED << route_cache, service_cache, sched_response >>
               ELSE Answer(sch_op, SelectSeq(listing, IdsPresent))
         [] sch_op = "next" ->
               IF SelectSeq(listing, Upcoming) = << >>
               THEN /\ sch_pc' = "following"
                    /\ UNCHANGED << route_cache, service_cache, sched_response >>
               ELSE Answer(sch_op, SelectSeq(listing, Upcoming))
    /\ UNCHANGED << clock, standings_memo, team_records, prev_team_records,
                    standings_queried, sch_op, invoked_on, query_failed >>
    /\ UNCHANGED notSchedule

\* get_schedule for the following date
QueryFollowing(listing) ==
    /\ sch_pc = "following"
    /\ queried' = Append(queried, invoked_on + 1)
    /\ Answer(sch_op, IF sch_op = "team" THEN SelectSeq(listing, IdsPresent)
                       ELSE SelectSeq(listing, Upcoming))
    /\ UNCHANGED << clock, standings_memo, team_records, prev_team_records,
                    standings_queried, sch_op, invoked_on, todays_games, query_failed >>
    /\ UNCHANGED notSchedule

\* get_schedule raises: the operation's except branch returns []
QueryRaises ==
    /\ sch_pc \in {"current", "following"}
    /\ queried' = Append(queried, IF sch_pc = "current" THEN invoked_on
                                  ELSE invoked_on + 1)
    /\ Answer(sch_op, << >>)
    /\ query_failed' = TRUE
    /\ UNCHANGED << clock, standings_memo, team_records, prev_team_records,
                    standings_queried, sch_op, invoked_on, todays_games >>
    /\ UNCHANGED notSchedule

NextSchedule ==
    \/ DateAdvances
    \/ \E op \in ScheduleOps : ScheduleRoute(op)
    \/ StandingsFromMemo
    \/ \E outcome \in {"raised", "unusable", "records"} : StandingsFromRemote(outcome)
    \/ \E listing \in DayListings(invoked_on) : QueryCurrent(listing)
    \/ \E listing \in DayListings(invoked_on + 1) : QueryFollowing(listing)
    \/ QueryRaises

\* -------------------------------------------------------------- SpecH2H
\* One lineup player's head-to-head lookup: the client call of a gather
\* branch, and the entry the join builds from the branch's result.

Batters == {first_away_batter, home_batter}

\* how the remote can answer GET people/<batter>/stats?...opposingPlayerId=...
Responses ==
    {"history",      \* a vsTeamTotal split with plate appearances
     "zero_pa",      \* a split whose stat is empty or has 0 plate appearances
     "no_stats",     \* no stats list, no vsTeamTotal entry, or no splits
     "timeout",      \* requests.exceptions.Timeout
     "http_404",     \* HTTPError with status 404
     "http_error",   \* any other RequestException
     "unparsable",   \* KeyError, IndexError, TypeError or AttributeError
     "unexpected"}   \* an exception no except clause names

NoPA == NoRuns
NoResult == [kind |-> "absent", PA |-> NoPA, error |-> ""]
DictResult(pa, e) == [kind |-> "dict", PA |-> pa, error |-> e]
NoneResult == [kind |-> "none", PA |-> NoPA, error |-> ""]
RaisedResult == [kind |-> "raised", PA |-> NoPA, error |-> ""]

\* get_player_h2h_stats, by the remote's answer
get_player_h2h_stats(response) ==
    CASE response = "history" -> DictResult(3, "")
      [] response \in {"zero_pa", "no_stats"} -> DictResult(0, "")
      [] response = "http_404" -> DictResult(NoPA, "Not Found")
      [] response \in {"timeout", "http_error", "unparsable"} -> NoneResult
      [] response = "unexpected" -> RaisedResult

\* the join: an exception and None become error dictionaries, anything else
\* is passed on as it is
NoneAsNoHistory(h2h_res) ==
    IF h2h_res.kind = "raised" THEN [PA |-> NoPA, error |-> "exception"]
    ELSE IF h2h_res.kind = "none" THEN [PA |-> 0, error |-> ""]
    ELSE [PA |-> h2h_res.PA, error |-> h2h_res.error]
JoinedH2H(h2h_res) ==
    IF h2h_res.kind = "raised" THEN [PA |-> NoPA, error |-> "exception"]
    ELSE IF h2h_res.kind = "none" THEN [PA |-> NoPA, error |-> "Fetch/Parse Failed"]
    ELSE [PA |-> h2h_res.PA, error |-> h2h_res.error]

\* default_h2h = {"PA": "N/A"}
default_h2h == [PA |-> NA, error |-> ""]

NoMemoEntry == [response |-> "", result |-> NoResult]

H2HIdle ==
    /\ h2h_memo = [b \in Batters |-> NoMemoEntry]
    /\ h2h_pc = "idle"
    /\ h2h_batter = 0
    /\ h2h_response = ""
    /\ h2h_result = NoResult
    /\ h2h_stats = default_h2h

\* the branch's call is answered from the lru_cache
H2HFromMemo(batter) ==
    /\ h2h_pc \in {"idle", "joined"}
    /\ h2h_memo[batter].result # NoResult
    /\ h2h_batter' = batter
    /\ h2h_response' = h2h_memo[batter].response
    /\ h2h_result' = h2h_memo[batter].result
    /\ h2h_pc' = "gathered"
    /\ UNCHANGED << h2h_memo, h2h_stats >>
    /\ UNCHANGED notH2H

\* the branch's call reaches the remote; lru_cache keeps what the call
\* returned, None included, and nothing when it raised
H2HFromRemote(batter, response) ==
    /\ h2h_pc \in {"idle", "joined"}
    /\ h2h_memo[batter].result = NoResult
    /\ h2h_batter' = batter
    /\ h2h_response' = response
    /\ h2h_result' = get_player_h2h_stats(response)
    /\ h2h_memo' = (IF h2h_result'.kind = "raised" THEN h2h_memo
                    ELSE [h2h_memo EXCEPT ![batter] =
                             [response |-> response, result |-> h2h_result']])
    /\ h2h_pc' = "gathered"
    /\ UNCHANGED h2h_stats
    /\ UNCHANGED notH2H

\* the player has a branch: task_index is not None
H2HJoin ==
    /\ h2h_pc = "gathered"
    /\ h2h_stats' = JoinedH2H(h2h_result)
    /\ h2h_pc' = "joined"
    /\ UNCHANGED << h2h_memo, h2h_batter, h2h_response, h2h_result >>
    /\ UNCHANGED notH2H

\* the player has no branch (the opposing pitcher is not known)
H2HDefault(batter) ==
    /\ h2h_pc \in {"idle", "joined"}
    /\ h2h_batter' = batter
    /\ h2h_response' = ""
    /\ h2h_result' = NoResult
    /\ h2h_stats' = default_h2h
    /\ h2h_pc' = "joined"
    /\ UNCHANGED h2h_memo
    /\ UNCHANGED notH2H

NextH2H ==
    \/ \E batter \in Batters : H2HFromMemo(batter)
    \/ \E batter \in Batters, response \in Responses : H2HFromRemote(batter, response)
    \/ H2HJoin
    \/ \E batter \in Batters : H2HDefault(batter)

\* ----------------------------------------------------------- SpecRecent
\* get_player_recent_stats for the player first_away_batter, on an event loop
\* that has one other task.

\* boxscore.teams.<side>.players of a document, and whether the player batted
Boxscore(home, away, batted) ==
    [fetched |-> TRUE, home_players |-> home, away_players |-> away, batted |-> batted]
NoBoxscore ==
    [fetched |-> FALSE, home_players |-> {}, away_players |-> {}, batted |-> FALSE]

\* what the remote may hold for a game
RemoteBoxscores ==
    {Boxscore({home_batter}, {first_away_batter}, TRUE),
     Boxscore({first_away_batter}, {home_batter}, FALSE),
     Boxscore({}, {}, FALSE)}

\* the remote call in flight, and whether it runs off the event loop
NoCall == [call |-> "", offloaded |-> TRUE]
Blocking(call) == [call |-> call, offloaded |-> FALSE]
Offloaded(call) == [call |-> call, offloaded |-> TRUE]

\* players = home_team.get('players', {}); players.update(away_team.get('players', {}))
players_update(box) ==
    [box EXCEPT !.home_players = box.home_players \cup box.away_players]

\* the Final games a window may list, newest first
RECURSIVE DescendingIds(_)
DescendingIds(n) ==
    IF n = 0 THEN {<< >>}
    ELSE DescendingIds(n - 1) \cup {<< n >> \o s : s \in DescendingIds(n - 1)}

RecentIdle ==
    /\ boxscores = [id \in GameIds |-> NoBoxscore]
    /\ as_fetched = [id \in GameIds |-> NoBoxscore]
    /\ rs_pc = "idle"
    /\ in_flight = NoCall
    /\ other_task = "ready"
    /\ rs_num_games = 0
    /\ days_to_search = days_to_search_start
    /\ recent_game_ids = << >>
    /\ scan_todo = << >>
    /\ seen_dates = {}
    /\ player_stats = << >>
    /\ rs_error = FALSE

\* the event loop runs a ready task only while no call blocks its thread
LoopFree == in_flight.offloaded

OtherTaskRuns ==
    /\ other_task = "ready"
    /\ LoopFree
    /\ other_task' = "ran"
    /\ UNCHANGED << boxscores, as_fetched, rs_pc, in_flight, rs_num_games,
                    days_to_search, recent_game_ids, scan_todo, seen_dates,
                    player_stats, rs_error >>
    /\ UNCHANGED notRecent

\* the route awaits get_player_recent_stats(player_id, num_games), which
\* calls mlb_stats_client.lookup_player directly
RecentCalled(n) ==
    /\ rs_pc \in {"idle", "returned"}
    /\ rs_num_games' = n
    /\ in_flight' = Blocking("lookup_player")
    /\ other_task' = "ready"
    /\ days_to_search' = days_to_search_start
    /\ recent_game_ids' = << >>
    /\ scan_todo' = << >>
    /\ seen_dates' = {}
    /\ player_stats' = << >>
    /\ rs_error' = FALSE
    /\ rs_pc' = "lookup"
    /\ UNCHANGED << boxscores, as_fetched >>
    /\ UNCHANGED notRecent

\* lookup_player returns or raises
LookupReturns(outcome) ==
    /\ rs_pc = "lookup"
    /\ in_flight' = NoCall
    /\ rs_error' = (outcome # "found")
    /\ rs_pc' = (IF outcome = "found" THEN "loop" ELSE "returned")
    /\ UNCHANGED << boxscores, as_fetched, other_task, rs_num_games, days_to_search,
                    recent_game_ids, scan_todo, seen_dates, player_stats >>
    /\ UNCHANGED notRecent

\* while len(player_stats) < num_games and days_to_search <= 180:
\*     recent_games = await get_schedule_async(...)
RecentWindow ==
    /\ rs_pc = "loop"
    /\ Len(player_stats) < rs_num_games
    /\ days_to_search <= days_to_search_limit
    /\ in_flight' = Offloaded("get_schedule_async")
    /\ rs_pc' = "schedule"
    /\ UNCHANGED << boxscores, as_fetched, other_task, rs_num_games, days_to_search,
                    recent_game_ids, scan_todo, seen_dates, player_stats, rs_error >>
    /\ UNCHANGED notRecent

\* the loop test fails: sort, cut to num_games, return
RecentReturns ==
    /\ rs_pc = "loop"
    /\ ~(Len(player_stats) < rs_num_games /\ days_to_search <= days_to_search_limit)
    /\ rs_pc' = "returned"
    /\ UNCHANGED << boxscores, as_fetched, in_flight, other_task, rs_num_games,
                    days_to_search, recent_game_ids, scan_todo, seen_dates,
                    player_stats, rs_error >>
    /\ UNCHANGED notRecent

\* the schedule answers; the documents are requested with
\* asyncio.gather(*[get_game_data_async(id) ...])
WindowAnswers(ids) ==
    /\ rs_pc = "schedule"
    /\ recent_game_ids' = ids
    /\ in_flight' = (IF \E i \in 1..Len(ids) : ~boxscores[ids[i]].fetched
                     THEN Offloaded("get_game_data") ELSE NoCall)
    /\ rs_pc' = "gather"
    /\ UNCHANGED << boxscores, as_fetched, other_task, rs_num_games, days_to_search,
                    scan_todo, seen_dates, player_stats, rs_error >>
    /\ UNCHANGED notRecent

\* a remote call of the request raises: the except branch
RecentRaises ==
    /\ rs_pc \in {"schedule", "gather"}
    /\ in_flight # NoCall
    /\ in_flight' = NoCall
    /\ rs_error' = TRUE
    /\ rs_pc' = "returned"
    /\ UNCHANGED << boxscores, as_fetched, other_task, rs_num_games, days_to_search,
                    recent_game_ids, scan_todo, seen_dates, player_stats >>
    /\ UNCHANGED notRecent

\* the gather returns: the alru_cache holds every document of the window,
\* those it held before as they are now
DocumentsArrive(remote) ==
    /\ rs_pc = "gather"
    /\ boxscores' = [id \in GameIds |->
                        IF id \in Range(recent_game_ids) /\ ~boxscores[id].fetched
                        THEN remote[id] ELSE boxscores[id]]
    /\ as_fetched' = [id \in GameIds |->
                        IF id \in Range(recent_game_ids) /\ ~boxscores[id].fetched
                        THEN remote[id] ELSE as_fetched[id]]
    /\ in_flight' = NoCall
    /\ scan_todo' = recent_game_ids
    /\ rs_pc' = "scan"
    /\ UNCHANGED << other_task, rs_num_games, days_to_search, recent_game_ids,
                    seen_dates, player_stats, rs_error >>
    /\ UNCHANGED notRecent

\* one iteration of "for game_data in game_data_list"
ScanDocument ==
    /\ rs_pc = "scan"
    /\ scan_todo # << >>
    /\ LET id == Head(scan_todo)
           merged == players_update(boxscores[id])
       IN  IF Len(player_stats) >= rs_num_games
           THEN /\ scan_todo' = << >>
                /\ UNCHANGED << boxscores, seen_dates, player_stats >>
           ELSE /\ scan_todo' = Tail(scan_todo)
                /\ boxscores' = [boxscores EXCEPT ![id] = merged]
                /\ IF first_away_batter \in merged.home_players /\ id \notin seen_dates
                   THEN /\ seen_dates' = seen_dates \cup {id}
                        /\ player_stats' = (IF merged.batted
                                            THEN Append(player_stats, id)
                                            ELSE player_stats)
                   ELSE UNCHANGED << seen_dates, player_stats >>
    /\ UNCHANGED << as_fetched, rs_pc, in_flight, other_task, rs_num_games,
                    days_to_search, recent_game_ids, rs_error >>
    /\ UNCHANGED notRecent

\* days_to_search *= 2
WindowDone ==
    /\ rs_pc = "scan"
    /\ scan_todo = << >>
    /\ days_to_search' = days_to_search * 2
    /\ rs_pc' = "loop"
    /\ UNCHANGED << boxscores, as_fetched, in_flight, other_task, rs_num_games,
                    recent_game_ids, scan_todo, seen_dates, player_stats, rs_error >>
    /\ UNCHANGED notRecent

NextRecent ==
    \/ OtherTaskRuns
    \/ \E n \in 1..MaxN : RecentCalled(n)
    \/ \E outcome \in {"found", "not_found", "no_team", "raised"} : LookupReturns(outcome)
    \/ RecentWindow
    \/ RecentReturns
    \/ \E ids \in DescendingIds(NumIds) : WindowAnswers(ids)
    \/ RecentRaises
    \/ \E remote \in [GameIds -> RemoteBoxscores] : DocumentsArrive(remote)
    \/ ScanDocument
    \/ WindowDone

\* ------------------------------------------------------ specifications
\* Each specification runs one component from its entry; the state of the
\* other components is left as it is when nothing has called them.

InitFetch ==
    FetchIdle /\ RecentIdle /\ H2HIdle /\ ScheduleIdle /\ LastNIdle /\ SpanIdle /\ SummaryIdle /\ RouteIdle /\ ComparisonIdle

SpecFetch == InitFetch /\ [][NextFetch]_vars

\* The call is entered: completed_games = [], end_date = today.
InitLastN ==
    /\ FetchIdle /\ RecentIdle /\ H2HIdle /\ ScheduleIdle
    /\ SpanIdle
    /\ SummaryIdle
    /\ RouteIdle
    /\ ComparisonIdle
    /\ today \in {Today - 1, Today}
    /\ team_id \in {0, 1}
    /\ season \in (IF team_id = 0 THEN {{}} ELSE SubsetsUpTo(EntriesOn(today), MaxEntries))
    /\ num_games \in 0..MaxN
    /\ completed_games = << >>
    /\ end_date = today
    /\ total_days_checked = 0
    /\ lnPc = "loop"
    /\ windows = << >>
    /\ lnRaised = FALSE
    /\ lnResult = << >>

SpecLastN == InitLastN /\ [][NextLastN]_vars

\* The call is entered.  The cache holds nothing for its key, or what an
\* earlier call with the same arguments stored on the same day.
InitSpan ==
    /\ FetchIdle /\ RecentIdle /\ H2HIdle /\ ScheduleIdle
    /\ LastNIdle
    /\ SummaryIdle
    /\ RouteIdle
    /\ ComparisonIdle
    /\ impl \in {"service", "legacy"}
    /\ num_days \in (IF impl = "service" THEN {NoDays} ELSE {}) \cup 0..MaxNumDays
    /\ base_date = Today - 1
    /\ SCHEDULE_CACHE \in
          (IF impl = "legacy" THEN {NoEntry}
           ELSE {NoEntry, IF num_days = NoDays THEN << base_date >>
                          ELSE GamesOfRange(base_date - num_days, base_date)})
    /\ dates_to_fetch = << >>
    /\ current_date = 0
    /\ spanPc = "call"
    /\ chunkSt = << >>
    /\ spanResult = << >>

SpecSpan == InitSpan /\ [][NextSpan]_vars

\* The game ids are resolved; the remote holds game_details for them.  The
\* aggregator is entered by get_game_comparison, or the team-stats route is.
\* fetch_last_n_completed_game_ids(team_id, num_games) has returned to
\* get_team_stats_summary: at most num_games ids (C4_LastNSafe)
ResolverReturned ==
    /\ season = {}
    /\ today = 1
    /\ team_id = 0
    /\ num_games \in 0..MaxN
    /\ completed_games = << >>
    /\ end_date = 1
    /\ total_days_checked = 0
    /\ lnPc = "done"
    /\ windows = << >>
    /\ lnRaised = FALSE
    /\ lnResult = << >>

\* get_team_stats_summary(team_id, num_games) after the resolver returned: the
\* batch fetch has one document per id, and the resolver returned at most
\* num_games ids.
InitSummary ==
    /\ FetchIdle /\ RecentIdle /\ H2HIdle /\ ScheduleIdle
    /\ ResolverReturned
    /\ SpanIdle
    /\ ComparisonIdle
    /\ game_details \in {l \in DocLists(MaxDocs) : Len(l) <= num_games}
    /\ route_pc \in {"idle", "call"}
    /\ stats_http = NoResponse
    /\ stats_body = "none"
    /\ sumPc = (IF route_pc = "call" THEN "uncalled" ELSE "start")
    /\ todo = << >>
    /\ game_nrfi_list = << >>
    /\ team_nrfi_list = << >>
    /\ team_runs_f5_list = << >>
    /\ moneyline_results_f5_for_calc = << >>
    /\ detailed_game_results = << >>
    /\ games_processed_count = 0
    /\ summary = EmptySummary

SpecSummary == InitSummary /\ [][NextSummary]_vars

\* The comparison route is entered for a target game.
InitComparison ==
    /\ FetchIdle /\ RecentIdle /\ H2HIdle /\ ScheduleIdle
    /\ LastNIdle
    /\ SpanIdle
    /\ SummaryIdle
    /\ RouteIdle
    /\ raw_game_data \in TargetGames
    /\ tasks_to_run = << >>
    /\ away_pitcher_task_index = NoIndex
    /\ home_pitcher_task_index = NoIndex
    /\ cmpPc = "call"
    /\ comparison_data = NoComparison
    /\ status_code = NoResponse

SpecComparison == InitComparison /\ [][NextComparison]_vars

\* No request has been served yet.
InitSchedule ==
    /\ FetchIdle /\ RecentIdle /\ H2HIdle
    /\ LastNIdle
    /\ SpanIdle
    /\ SummaryIdle
    /\ RouteIdle
    /\ ComparisonIdle
    /\ ScheduleIdle

SpecSchedule == InitSchedule /\ [][NextSchedule]_vars

\* No head-to-head lookup has been made yet.
InitH2H ==
    /\ FetchIdle /\ RecentIdle
    /\ LastNIdle
    /\ SpanIdle
    /\ SummaryIdle
    /\ RouteIdle
    /\ ComparisonIdle
    /\ ScheduleIdle
    /\ H2HIdle

SpecH2H == InitH2H /\ [][NextH2H]_vars

\* No player request has been served yet.
InitRecent ==
    /\ FetchIdle
    /\ LastNIdle
    /\ SpanIdle
    /\ SummaryIdle
    /\ RouteIdle
    /\ ComparisonIdle
    /\ ScheduleIdle
    /\ H2HIdle
    /\ RecentIdle

SpecRecent == InitRecent /\ [][NextRecent]_vars

\* ------------------------------------------------- SpecFetch: the claims

BatchOver == gather \in {"returned", "raised"}
FetchFailed(i) == tasks[i].pc = "raised"
FetchSucceeded(i) == tasks[i].pc = "done"
SucceededPositions == {i \in 1..Len(tasks) : FetchSucceeded(i)}

RECURSIVE DocsOfPositions(_, _)
DocsOfPositions(i, ts) ==
    IF i > Len(ts) THEN << >>
    ELSE (IF ts[i].pc = "done" THEN << ts[i].res >> ELSE << >>) \o DocsOfPositions(i + 1, ts)

\* C1 (as claimed): when some fetch of a batch raises, fetch_game_details_batch
\* still returns, and returns exactly the documents of the ids whose fetch
\* succeeded.
C1_FailedFetchesDropped ==
    (BatchOver /\ \E i \in 1..Len(tasks) : FetchFailed(i))
        => (gather = "returned" /\ results = DocsOfPositions(1, tasks))

\* C2: order preservation.  When all fetches of a batch succeeded, the i-th
\* returned document is the document the i-th coroutine produced, and it is the
\* document of the i-th input id, whatever order the coroutines finished in.
C2_OrderPreserved ==
    gather = "returned" =>
        /\ Len(results) = Len(game_ids)
        /\ \A i \in 1..Len(game_ids) :
              results[i] = tasks[i].res /\ results[i].pk = game_ids[i]

\* C2 witness: a returned batch of two different games, one served from the
\* cache and one fetched, whose coroutines finished against the input order.
C2_Witness ==
    /\ gather = "returned"
    /\ Len(game_ids) = 2
    /\ game_ids[1] # game_ids[2]
    /\ doneOrder = << 2, 1 >>
    /\ calls = 1

\* C3: idempotence.  When a batch returns, each returned document is the entry
\* GAME_CACHE holds for its id; and a batch that repeats the id set of the batch
\* that returned just before it issues no remote call and returns, for each id,
\* the document the earlier batch returned.
C3_Idempotent ==
    /\ gather = "returned" =>
          \A i \in 1..Len(game_ids) :
              i <= Len(results) /\ results[i] # NoDoc
                  /\ GAME_CACHE[game_ids[i]] = results[i]
    /\ repeat => calls = 0
    /\ (repeat /\ gather = "returned") =>
          \A i \in 1..Len(game_ids) : results[i] = prevDoc[game_ids[i]]

\* C3 witness: a repeated batch of two different games has returned, after a
\* first batch that had to fetch.
C3_Witness ==
    /\ repeat
    /\ gather = "returned"
    /\ Len(game_ids) = 2
    /\ game_ids[1] # game_ids[2]
    /\ \A i \in 1..2 : prevDoc[game_ids[i]] \in Docs

\* ------------------------------------------------- SpecLastN: the claims

QualifyingEntries == {e \in season : Qualifies(e)}
DistinctIds == \A e1, e2 \in season : e1.game_id = e2.game_id => e1 = e2
DatetimeOf(id) == (CHOOSE e \in QualifyingEntries : e.game_id = id).game_datetime
\* the windows the backward search needs to reach the season start
WindowsToSeasonStart ==
    (today - year_start_date + days_to_check_increment) \div days_to_check_increment

\* C4: the returned list has at most num_games ids, no id twice, and every id
\* is that of a schedule entry with a terminal status and game type R or S.
C4_LastNSafe ==
    lnPc = "done" =>
        /\ Len(lnResult) <= num_games
        /\ \A i, j \in 1..Len(lnResult) : lnResult[i] = lnResult[j] => i = j
        /\ \A i \in 1..Len(lnResult) :
              \E e \in season : /\ e.game_id = lnResult[i]
                                /\ e.status \in TerminalStatuses
                                /\ e.game_type \in CountedGameTypes

\* C4 witness: one game asked for, two qualifying games of different ids listed
\* in the one window searched, one id returned.
C4_Witness ==
    /\ lnPc = "done"
    /\ num_games = 1
    /\ Len(windows) = 1
    /\ Cardinality({e.game_id : e \in QualifyingEntries}) = 2
    /\ Len(lnResult) = 1

\* C5: the backward search terminates.  Every loop iteration requests one
\* window; the number of windows requested never exceeds the number needed to
\* reach 1 January, and the call is never stuck before it has returned.
C5_Terminates ==
    /\ Len(windows) <= WindowsToSeasonStart
    /\ lnPc # "done" => ENABLED NextLastN
    /\ lnPc = "done" => ~ENABLED NextLastN

\* C5 witness: a season without any game, num_games > 0: the search has
\* returned after walking back past 1 January.
C5_Witness ==
    /\ lnPc = "done"
    /\ team_id # 0
    /\ season = {}
    /\ num_games > 0
    /\ ~lnRaised
    /\ Len(windows) = WindowsToSeasonStart
    /\ end_date < year_start_date

\* C6: most recent N.  When no request failed (and the season lists every game
\* once), the returned ids are min(N, total) qualifying games, in descending
\* game_datetime order, and no qualifying game left out is later than one
\* returned.
C6_MostRecentN ==
    (lnPc = "done" /\ team_id # 0 /\ ~lnRaised /\ DistinctIds) =>
        /\ Len(lnResult) = Min(num_games, Cardinality(QualifyingEntries))
        /\ \A i \in 1..Len(lnResult) : lnResult[i] \in {e.game_id : e \in QualifyingEntries}
        /\ \A i, j \in 1..Len(lnResult) :
              i < j => DatetimeOf(lnResult[i]) >= DatetimeOf(lnResult[j])
        /\ \A e \in QualifyingEntries :
              e.game_id \notin Range(lnResult) =>
                  \A i \in 1..Len(lnResult) : e.game_datetime <= DatetimeOf(lnResult[i])

\* C6 witness: two games returned, the later one found in the first window and
\* the earlier one in a window searched after it.
C6_Witness ==
    /\ lnPc = "done"
    /\ ~lnRaised
    /\ DistinctIds
    /\ Len(windows) = 2
    /\ Len(lnResult) = 2
    /\ DatetimeOf(lnResult[1]) >= windows[1][1]
    /\ DatetimeOf(lnResult[2]) <= windows[2][2]

\* ------------------------------------------------ claims under SpecSpan

\* the request ranges are all built and the requests are out or answered
RangesBuilt == spanPc \in {"gather", "raised"}

DaysOfRange(r) == r[1]..r[2]
SpanDays == (base_date - num_days)..base_date

\* each range has one to five days, every day of the span is in exactly one
\* range, and no range has a day outside the span
PartitionsSpan ==
    /\ \A i \in 1..Len(dates_to_fetch) :
          /\ Cardinality(DaysOfRange(dates_to_fetch[i])) >= 1
          /\ Cardinality(DaysOfRange(dates_to_fetch[i])) <= 5
          /\ DaysOfRange(dates_to_fetch[i]) \subseteq SpanDays
    /\ \A d \in SpanDays :
          Cardinality({i \in 1..Len(dates_to_fetch) :
                          d \in DaysOfRange(dates_to_fetch[i])}) = 1

\* the games of the chunks whose schedule query answered, in chunk order
RECURSIVE GamesOfAnswered(_, _)
GamesOfAnswered(ranges, st) ==
    IF ranges = << >> THEN << >>
    ELSE (IF Head(st) = "ok" THEN GamesOfRange(Head(ranges)[1], Head(ranges)[2])
          ELSE << >>)
         \o GamesOfAnswered(Tail(ranges), Tail(st))

\* C7: when the schedule query of one chunk raises, the fixed-span resolver
\* does not raise: it returns the games of every chunk that answered and the
\* failed chunk contributes none.  (Violated: asyncio.gather re-raises.)
C7_ChunkErrorSwallowed ==
    (impl = "service" /\ \E i \in 1..Len(chunkSt) : chunkSt[i] = "raised")
        => /\ spanPc # "raised"
           /\ spanPc = "done" => spanResult = GamesOfAnswered(dates_to_fetch, chunkSt)

\* C8: for every num_days >= 0 the request ranges of
\* fetch_and_cache_game_ids_span partition [base_date - num_days, base_date]
\* into ranges of at most 5 days.  (Violated by the resolver of src/cache.py.)
C8_ChunksPartitionSpan ==
    (RangesBuilt /\ num_days # NoDays) => PartitionsSpan

\* The same statement for the resolver of schedule_service.py alone, which
\* holds.
ServiceChunksPartitionSpan ==
    (RangesBuilt /\ num_days # NoDays /\ impl = "service") => PartitionsSpan

ServiceChunksWitness ==
    /\ RangesBuilt
    /\ impl = "service"
    /\ num_days = MaxNumDays
    /\ Len(dates_to_fetch) = 3

\* --------------------------------------------- claims under SpecSummary

Percentages(d) ==
    << d.nrfi, d.game_nrfi_percentage, d.win_percentage_f5, d.over1_5F5, d.over2_5F5 >>

\* C9: the summary is always returned, no percentage is computed by a
\* division by zero, each percentage is 0.0 when its own sample is empty, and
\* with no documents games_analyzed is 0 and every percentage is 0.0.
C9_EmptySampleSafe ==
    sumPc = "done" =>
        /\ summary.error # "division by zero"
        /\ \A i \in 1..5 : Percentages(summary)[i] >= 0
        /\ team_nrfi_list = << >> => summary.nrfi = 0
        /\ game_nrfi_list = << >> => summary.game_nrfi_percentage = 0
        /\ moneyline_results_f5_for_calc = << >> => summary.win_percentage_f5 = 0
        /\ team_runs_f5_list = << >> => summary.over1_5F5 = 0 /\ summary.over2_5F5 = 0
        /\ game_details = << >> =>
              /\ summary.games_analyzed = 0
              /\ Percentages(summary) = << 0, 0, 0, 0, 0 >>

\* a game was counted whose first-inning sample and moneyline sample are
\* empty while its F5 run sample is not, and the summary was computed
C9_Witness ==
    /\ sumPc = "done"
    /\ summary.error = ""
    /\ summary.games_analyzed > 0
    /\ game_nrfi_list = << >>
    /\ moneyline_results_f5_for_calc = << >>
    /\ team_runs_f5_list # << >>
    /\ summary.over1_5F5 = 0

\* a document with gameData, liveData, a non-empty innings list and both
\* team ids
ValidDocument(gd) ==
    /\ gd.gameData
    /\ gd.liveData
    /\ gd.linescore
    /\ Len(gd.innings) > 0
    /\ gd.home_id # 0
    /\ gd.away_id # 0

ValidPks(docs) == {docs[i].pk : i \in {j \in 1..Len(docs) : ValidDocument(docs[j])}}

\* C10: when the documents were fetched, the ones that lack liveData, a
\* non-empty innings list or a team id are not counted in games_analyzed, and
\* every valid document of the batch is aggregated: the loop has counted
\* exactly the valid documents it has passed, and the summary lists exactly
\* the valid documents of the batch.
C10_ValidityGate ==
    /\ sumPc = "loop" =>
          LET passed == SubSeq(SelectSeq(game_details, HasData), 1,
                               Len(SelectSeq(game_details, HasData)) - Len(todo))
          IN  /\ games_processed_count = Cardinality(ValidPks(passed))
              /\ {detailed_game_results[i].game_pk :
                     i \in 1..Len(detailed_game_results)} = ValidPks(passed)
    /\ (sumPc = "done" /\ summary.error = "") =>
          /\ summary.games_analyzed = Cardinality(ValidPks(game_details))
          /\ Len(summary.results) = summary.games_analyzed
          /\ {summary.results[i].game_pk : i \in 1..Len(summary.results)}
                = ValidPks(game_details)

\* a batch whose first document is skipped and whose second is aggregated
C10_Witness ==
    /\ sumPc = "done"
    /\ summary.error = ""
    /\ Len(game_details) = 2
    /\ ~ValidDocument(game_details[1])
    /\ HasData(game_details[1])
    /\ ValidDocument(game_details[2])
    /\ summary.games_analyzed = 1
    /\ summary.results[1].game_pk = 2

\* the documents the for loop has passed so far
Passed ==
    LET withData == SelectSeq(game_details, HasData)
    IN  IF sumPc = "loop" THEN SubSeq(withData, 1, Len(withData) - Len(todo))
        ELSE IF sumPc = "done" /\ summary.error = "" THEN withData
        ELSE << >>
PassedValid == SelectSeq(Passed, ValidDocument)

\* the run count of a side in an inning of a document; NoRuns past its end
Count(gd, i, side) ==
    IF i > Len(gd.innings) THEN NoRuns
    ELSE IF side = "home" THEN gd.innings[i].home ELSE gd.innings[i].away
SideOf(gd, team) == IF gd.home_id = team THEN "home" ELSE "away"
OtherSide(side) == IF side = "home" THEN "away" ELSE "home"
Reports(gd, side) == \E i \in 1..5 : Count(gd, i, side) # NoRuns
RECURSIVE F5Total(_, _, _)
F5Total(gd, side, i) ==
    IF i = 0 THEN 0
    ELSE F5Total(gd, side, i - 1)
         + (IF Count(gd, i, side) # NoRuns THEN Count(gd, i, side) ELSE 0)

\* the valid documents passed with a run count for both sides in the first five
Compared == SelectSeq(PassedValid, LAMBDA gd : Reports(gd, "home") /\ Reports(gd, "away"))
TeamWins ==
    {i \in 1..Len(Compared) :
        F5Total(Compared[i], SideOf(Compared[i], team_id_summary), 5)
          > F5Total(Compared[i], OtherSide(SideOf(Compared[i], team_id_summary)), 5)}
F5Ties ==
    {i \in 1..Len(Compared) :
        F5Total(Compared[i], "home", 5) = F5Total(Compared[i], "away", 5)}

\* p is q / n * 100 rounded to two places, in hundredths
IsPercentageOf(p, q, n) ==
    /\ 2 * (p * n - 10000 * q) <= n
    /\ 2 * (10000 * q - p * n) <= n

\* C11: a game whose F5 runs are equal is counted in the denominator of the
\* win percentage and as a win of neither team: the percentage is the team's
\* wins over all compared games, ties included.
C11_TieInDenominator ==
    (sumPc = "done" /\ summary.error = "" /\ Len(Compared) > 0) =>
        IsPercentageOf(summary.win_percentage_f5, Cardinality(TeamWins), Len(Compared))

\* one tied game and one game the team won: 50.00
C11_Witness ==
    /\ sumPc = "done"
    /\ summary.error = ""
    /\ Len(Compared) = 2
    /\ Cardinality(F5Ties) = 1
    /\ Cardinality(TeamWins) = 1
    /\ summary.win_percentage_f5 = 5000

\* the valid documents passed whose first inning has both run counts
NrfiSample ==
    SelectSeq(PassedValid, LAMBDA gd : Count(gd, 1, "home") # NoRuns
                                       /\ Count(gd, 1, "away") # NoRuns)

\* C12: a valid game whose first inning lacks the home or the away run count
\* is in neither NRFI sample but is counted in games_analyzed; a game with both
\* counts adds one entry to each sample: game NRFI is true iff both counts are
\* 0, team NRFI iff the count of the team's side is 0.
C12_NrfiSample ==
    /\ games_processed_count = Len(PassedValid)
    /\ game_nrfi_list =
          [i \in 1..Len(NrfiSample) |->
              Count(NrfiSample[i], 1, "home") = 0 /\ Count(NrfiSample[i], 1, "away") = 0]
    /\ team_nrfi_list =
          [i \in 1..Len(NrfiSample) |->
              Count(NrfiSample[i], 1, SideOf(NrfiSample[i], team_id_summary)) = 0]
    /\ (sumPc = "done" /\ summary.error = "") =>
          summary.games_analyzed = Len(PassedValid)

\* two games analysed, one of them without a first-inning count for a side
C12_Witness ==
    /\ sumPc = "done"
    /\ summary.error = ""
    /\ summary.games_analyzed = 2
    /\ Len(NrfiSample) = 1
    /\ Len(game_nrfi_list) = 1
    /\ game_nrfi_list[1] # team_nrfi_list[1]

\* C13: a valid game adds a record to the win-percentage computation iff both
\* sides report a run count within the first five innings; every valid game is
\* counted and listed in the results, with 'N/A' in each of the five slots of
\* a side that has no count for that inning.
C13_MoneylineRecord ==
    /\ Len(moneyline_results_f5_for_calc) = Len(Compared)
    /\ \A i \in 1..Len(Compared) :
          /\ moneyline_results_f5_for_calc[i].home_team.id = Compared[i].home_id
          /\ moneyline_results_f5_for_calc[i].away_team.id = Compared[i].away_id
          /\ moneyline_results_f5_for_calc[i].home_team.total_runs = F5Total(Compared[i], "home", 5)
          /\ moneyline_results_f5_for_calc[i].away_team.total_runs = F5Total(Compared[i], "away", 5)
    /\ games_processed_count = Len(PassedValid)
    /\ Len(detailed_game_results) = Len(PassedValid)
    /\ \A i \in 1..Len(PassedValid) :
          /\ detailed_game_results[i].game_pk = PassedValid[i].pk
          /\ Len(detailed_game_results[i].home_team.runs) = 5
          /\ Len(detailed_game_results[i].away_team.runs) = 5
          /\ \A k \in 1..5 :
                /\ detailed_game_results[i].home_team.runs[k] =
                      (IF Count(PassedValid[i], k, "home") = NoRuns THEN NA
                       ELSE Count(PassedValid[i], k, "home"))
                /\ detailed_game_results[i].away_team.runs[k] =
                      (IF Count(PassedValid[i], k, "away") = NoRuns THEN NA
                       ELSE Count(PassedValid[i], k, "away"))

\* a game with counts for one side only: analysed and listed, not compared
C13_Witness ==
    /\ sumPc = "done"
    /\ summary.error = ""
    /\ summary.games_analyzed = 1
    /\ Len(summary.results) = 1
    /\ moneyline_results_f5_for_calc = << >>
    /\ \E k \in 1..5 : summary.results[1].home_team.runs[k] # NA
    /\ \A k \in 1..5 : summary.results[1].away_team.runs[k] = NA

\* C14: the results of a summary are in descending game date order, whatever
\* the order of the documents.
C14_ResultsSortedDesc ==
    sumPc = "done" =>
        \A i, j \in 1..Len(summary.results) :
            i < j => summary.results[i].game_date >= summary.results[j].game_date

\* two documents fetched oldest first: the later game is listed first
C14_Witness ==
    /\ sumPc = "done"
    /\ Len(summary.results) = 2
    /\ game_details[1].originalDate < game_details[2].originalDate
    /\ summary.results[1].game_pk = game_details[2].pk
    /\ summary.results[2].game_pk = game_details[1].pk

\* C19: the team-stats route answers with the summary of the aggregator, and
\* with status 500 exactly when that summary carries an error.  (Violated:
\* the call passes include_details, which the aggregator does not take.)
C19_RouteReturnsSummary ==
    route_pc = "answered" =>
        /\ stats_body = "summary"
        /\ stats_http = 500 <=> CarriesError(summary)

\* ------------------------------------------ claims under SpecComparison

Returned == cmpPc \in {"returned", "answered"}
TargetFetchFailed == comparison_data = OnException("fetch failed")
AwayLineup == _extract_lineup(raw_game_data.away_box)
HomeLineup == _extract_lineup(raw_game_data.home_box)
TopLevelError == "error" \in comparison_data.keys
Gathered == Returned /\ tasks_to_run # << >>

\* C15: when the lineup of a team is not posted in the target game the
\* comparison is still returned (with the lineup of the team's last game or an
\* empty one), not a top-level error.  (Violated: there is no fallback, the
\* missing lineup is None and iterating it is caught as an error.)
C15_LineupFallback ==
    (Returned /\ ~TargetFetchFailed /\ (~AwayLineup.posted \/ ~HomeLineup.posted))
        => ~TopLevelError

Unresolved(pitcher_id) == pitcher_id = 0 \/ pitcher_id = TBD
AwayBatters == {raw_game_data.away_box[i].id : i \in 1..Len(raw_game_data.away_box)}
HomeBatters == {raw_game_data.home_box[i].id : i \in 1..Len(raw_game_data.home_box)}
H2HRequests == {i \in 1..Len(tasks_to_run) : tasks_to_run[i].kind = "h2h"}

\* C16: no head-to-head request is issued for a batter whose opposing pitcher
\* is unresolved; every head-to-head request names the known id of the
\* opposing pitcher.
C16_TbdShortCircuit ==
    /\ \A i \in H2HRequests :
          /\ ~Unresolved(tasks_to_run[i].against)
          /\ tasks_to_run[i].who \in AwayBatters =>
                tasks_to_run[i].against = raw_game_data.home_pitcher_id
          /\ tasks_to_run[i].who \in HomeBatters =>
                tasks_to_run[i].against = raw_game_data.away_pitcher_id
    /\ Unresolved(raw_game_data.home_pitcher_id) =>
          \A i \in H2HRequests : tasks_to_run[i].who \notin AwayBatters
    /\ Unresolved(raw_game_data.away_pitcher_id) =>
          \A i \in H2HRequests : tasks_to_run[i].who \notin HomeBatters

\* the home pitcher is TBD, the away pitcher known: the comparison is returned
\* with a request for the home batter only
C16_Witness ==
    /\ cmpPc = "answered"
    /\ ~TopLevelError
    /\ raw_game_data.home_pitcher_id = TBD
    /\ raw_game_data.away_pitcher_id = away_pitcher
    /\ Len(AwayLineup.players) = 2
    /\ Cardinality(H2HRequests) = 1
    /\ \A i \in 1..2 : comparison_data.away_team.lineup[i].h2h_stats.kind = "PA N/A"

\* the entry of a lineup of the comparison for a player
EntriesFor(lineup, player_id) ==
    {lineup[i].h2h_stats : i \in {j \in 1..Len(lineup) : lineup[j].id = player_id}}
ListedLineup(player_id) ==
    IF player_id \in AwayBatters THEN comparison_data.away_team.lineup
    ELSE comparison_data.home_team.lineup

CompleteLineup(listed, lineup) ==
    /\ Len(listed) = Len(lineup.players)
    /\ \A i \in 1..Len(listed) :
          /\ listed[i].id = lineup.players[i]
          /\ listed[i].h2h_stats.kind
                \in {"stats", "exception", "Fetch/Parse Failed", "PA N/A"}

\* C18: get_game_comparison does not raise: it always comes to return, and
\* what it returns is either the single top-level error entry or the complete
\* comparison.
C18_ErrorBoundary ==
    /\ ~comparison_data.raised
    /\ cmpPc # "answered" => ENABLED NextComparison
    /\ Returned =>
          \/ /\ comparison_data.keys = {"error"}
             /\ comparison_data.error # << >>
             /\ comparison_data = [NoComparison EXCEPT !.keys = {"error"},
                                                       !.error = comparison_data.error]
          \/ /\ comparison_data.keys = {"game_info", "team_comparison"}
             /\ comparison_data.error = << >>
             /\ comparison_data.away_team.id = raw_game_data.away_team_id
             /\ comparison_data.home_team.id = raw_game_data.home_team_id
             /\ CompleteLineup(comparison_data.away_team.lineup, AwayLineup)
             /\ CompleteLineup(comparison_data.home_team.lineup, HomeLineup)
             /\ comparison_data.away_pitcher.season_era \in {"era", "N/A"}
             /\ comparison_data.home_pitcher.season_era \in {"era", "N/A"}
             /\ comparison_data.away.team = raw_game_data.away_team_id
             /\ comparison_data.home.team = raw_game_data.home_team_id

\* every branch ended, then filling a lineup that is None raised: the single
\* error entry is returned
C18_Witness ==
    /\ Gathered
    /\ \E i \in 1..Len(tasks_to_run) : tasks_to_run[i].st = "raised"
    /\ comparison_data.keys = {"error"}
    /\ comparison_data.error[2] = "'NoneType' object is not iterable"

\* C20: the comparison route answers 404 when the target game cannot be
\* fetched or a team id is unresolved, 500 for every other error, and success
\* only with both team ids resolved.  (Violated: the service never words an
\* error the way the route looks for, and does not check the team ids.)
C20_RouteStatus ==
    cmpPc = "answered" =>
        LET unresolved == raw_game_data.away_team_id = 0 \/ raw_game_data.home_team_id = 0
        IN  /\ (TargetFetchFailed \/ unresolved) => status_code = 404
            /\ (TopLevelError /\ ~TargetFetchFailed /\ ~unresolved) => status_code = 500
            /\ status_code = 200 => ~unresolved

\* ------------------------------------- SpecFetch: cache stability and failure

\* a store step never alters an entry that already holds a document
StoredStays ==
    \A id \in GameIds : GAME_CACHE[id] # NoDoc => GAME_CACHE'[id] = GAME_CACHE[id]

\* every coroutine that has returned a document returned the stored one
SameDocument ==
    \A i \in 1..Len(tasks) :
        (tasks[i].pc = "done" /\ Len(game_ids) = Len(tasks)) =>
            tasks[i].res = GAME_CACHE[game_ids[i]]

\* C24: for every interleaving of fetch_single_game_details calls, once
\* GAME_CACHE holds a document for an id the stored value never changes, and
\* all callers for that id receive the same document.
C24_StoreStable == [][StoredStays]_vars /\ []SameDocument

\* C24 witness: two coroutines of one batch ask for the same id and both missed
\* the cache before either stored; one has stored and returned the document,
\* the other is still to resume and store.
C24_Witness ==
    /\ Len(game_ids) = 2
    /\ Len(tasks) = 2
    /\ game_ids[1] = game_ids[2]
    /\ calls = 1
    /\ tasks[1].pc = "done"
    /\ tasks[2].pc = "wait"
    /\ tasks[1].res \in Docs
    /\ GAME_CACHE[game_ids[1]] = tasks[1].res

\* a step in which a waiting coroutine's fetch raises
Raising(i) ==
    /\ i \in 1..Len(tasks)
    /\ Len(tasks') = Len(tasks)
    /\ tasks[i].pc = "wait"
    /\ tasks'[i].pc = "raised"

\* C29: a failed game fetch leaves GAME_CACHE unchanged (no entry for the id,
\* no other entry altered) and nothing is memoized for the id, so that a later
\* fetch of the id issues a new remote call.
C29_FailedFetchFrame ==
    [][\A i \in 1..Len(tasks) :
          Raising(i) => /\ GAME_CACHE' = GAME_CACHE
                        /\ GAME_CACHE'[game_ids[i]] = NoDoc
                        /\ alru'[game_ids[i]] = AlruNone]_vars

\* C29 witness: the first fetch of an id raised, the cache has no entry for
\* the id, and a later fetch of the same id has issued a second remote call.
C29_Witness ==
    /\ Len(game_ids) = 2
    /\ Len(tasks) = 2
    /\ game_ids[1] = game_ids[2]
    /\ tasks[1].pc = "raised"
    /\ tasks[2].pc = "wait"
    /\ calls = 2
    /\ GAME_CACHE[game_ids[1]] = NoDoc

\* ------------------------------------------ SpecLastN: the windows requested

WindowDays(w) == w[1]..w[2]

\* C26: the windows of the backward search are disjoint and contiguous: no day
\* is requested twice, each window spans at most 15 days and ends the day
\* before the previous window starts, and when fewer than num_games games were
\* found and no call failed, every day from 1 January through today is
\* requested exactly once.
C26_WindowsPartition ==
    /\ \A i \in 1..Len(windows) :
          /\ windows[i][1] <= windows[i][2]
          /\ Cardinality(WindowDays(windows[i])) <= days_to_check_increment
          /\ i > 1 => windows[i][2] = windows[i - 1][1] - 1
    /\ \A i, j \in 1..Len(windows) :
          i # j => WindowDays(windows[i]) \cap WindowDays(windows[j]) = {}
    /\ (lnPc = "done" /\ team_id # 0 /\ ~lnRaised /\ Len(completed_games) < num_games) =>
          \A d \in year_start_date..today :
              Cardinality({i \in 1..Len(windows) : d \in WindowDays(windows[i])}) = 1

\* C26 witness: fewer games than asked for were found, no call failed, and the
\* second window requested starts on 1 January.
C26_Witness ==
    /\ lnPc = "done"
    /\ team_id # 0
    /\ ~lnRaised
    /\ Len(completed_games) < num_games
    /\ Len(windows) = 2
    /\ windows[2][1] = year_start_date
    /\ windows[1][2] = today

\* ------------------------------------------- SpecSummary: the games counted

CurrentYieldedNothing ==
    /\ ~query_failed
    /\ \/ sch_op = "team" /\ todays_games = << >>
       \/ sch_op = "next" /\ SelectSeq(todays_games, Upcoming) = << >>

\* C21: every invocation of the today-schedule, team-schedule and next-schedule
\* operations, a repeated one after the date advanced or after a failure
\* included, queries the remote for the date current at the invocation, and
\* for the following date when that yields nothing.
C21_QueriesCurrentDate ==
    sch_pc = "responded" =>
        /\ queried # << >>
        /\ queried[1] = invoked_on
        /\ (sch_op # "today" /\ CurrentYieldedNothing) =>
              (Len(queried) = 2 /\ queried[2] = invoked_on + 1)

\* C28: a failed standings lookup is not memoized: after a lookup that
\* returned the empty mapping, the next lookup queries the remote again.
C28_FailedStandingsRetried ==
    (sch_pc = "current" /\ prev_team_records = "empty") => standings_queried

NotFinished(game) ==
    /\ game.status \notin {"Final", "Game Over", "Completed Early"}
    /\ game.game_id # 0
    /\ game.home_id # 0
    /\ game.away_id # 0

\* C22: get_today_schedule and get_next_game_schedule_for_team never return a
\* game whose status is Final, Game Over or Completed Early, nor one lacking a
\* game id, home id or away id; get_next_game_schedule_for_team returns games
\* of the following date only when the current date yielded no upcoming game.
C22_UpcomingFilter ==
    (sch_pc = "responded" /\ sch_op \in {"today", "next"}) =>
        /\ \A i \in 1..Len(sched_response) : NotFinished(sched_response[i])
        /\ (sch_op = "next" /\ queried # << >>) =>
              \A i \in 1..Len(sched_response) :
                  sched_response[i].date = invoked_on + 1 =>
                      \A j \in 1..Len(todays_games) : ~NotFinished(todays_games[j])

\* C22 witness: the current date listed only a finished game, and the
\* next-schedule operation returned the upcoming game of the following date.
C22_Witness ==
    /\ sch_pc = "responded"
    /\ sch_op = "next"
    /\ Len(queried) = 2
    /\ Len(todays_games) = 1
    /\ todays_games[1].status = "Game Over"
    /\ Len(sched_response) = 1
    /\ sched_response[1].date = invoked_on + 1
    /\ NotFinished(sched_response[1])

\* ------------------------------------------------- SpecH2H: the claims

LookupSucceeded(response) == response \in {"history", "zero_pa", "no_stats"}
LookupFailed(response) ==
    response \in {"timeout", "http_404", "http_error", "unparsable", "unexpected"}

\* C23: for a lineup player whose opposing pitcher is known, h2h_stats is
\* {PA: 0} exactly when the lookup succeeded and reported no history or zero
\* plate appearances, and carries an "error" key whenever the lookup failed; a
\* failure is never reported as {PA: 0}.
C23_H2HDistinguishable ==
    (h2h_pc = "joined" /\ h2h_response # "") =>
        /\ (h2h_stats.PA = 0 /\ h2h_stats.error = "") <=>
              h2h_response \in {"zero_pa", "no_stats"}
        /\ LookupFailed(h2h_response) => h2h_stats.error # ""
        /\ LookupFailed(h2h_response) => h2h_stats.PA # 0

\* C23 witness: one player's lookup timed out and the player's entry carries
\* an error, while the other player's lookup reported no history and was
\* memoized.
C23_Witness ==
    /\ h2h_pc = "joined"
    /\ h2h_batter = first_away_batter
    /\ h2h_response = "timeout"
    /\ h2h_stats.error = "Fetch/Parse Failed"
    /\ h2h_memo[home_batter].result = DictResult(0, "")

\* ---------------------------------------------- SpecRecent: the claims

\* C25: cached game documents are read-only: no operation modifies any part
\* of a document after it was fetched and memoized, so every later reader
\* observes it exactly as the remote returned it.
C25_DocumentsReadOnly ==
    \A id \in GameIds : boxscores[id].fetched => boxscores[id] = as_fetched[id]

\* C27: every remote call made while serving an asynchronous request is a
\* suspension point: it runs off the event loop, so while it is in flight the
\* other ready tasks of the loop can make progress.
C27_RemoteCallsSuspend ==
    in_flight.call # "" =>
        /\ in_flight.offloaded
        /\ other_task = "ready" => ENABLED OtherTaskRuns

====
